---- MODULE Spec2Model ----
(***************************************************************************)
(* Loan-Eligibility-Assessment: the scoring engine (LoanEligibilityModel), *)
(* the process-wide model accessor and the services that use it.           *)
(*                                                                         *)
(* Numbers.  The program computes in IEEE doubles; the model computes in   *)
(* fixed point, every quantity an integer count of a stated unit:          *)
(*   money                       1 INR                                     *)
(*   credit_history, encodings   1/HS                                      *)
(*   ratios (loan_to_income_ratio, risk_score, monthly_burden)  1/HS       *)
(*   normalized features         1/NS                                      *)
(*   weights                     1/WS                                      *)
(*   logit, contributions        1/(NS*WS)                                 *)
(*   probabilities               1/PS                                      *)
(*   percentages                 1/PctS of a percent point before they are *)
(*                               rounded, 1/HS of one after                *)
(* A double that is NaN is the value NaN below; every other double is      *)
(* Num(v).                                                                 *)
(*                                                                         *)
(* Training.  train() draws its 5000 examples and its initial weights from *)
(* Math.random(); what it drew is a member of Draws and what the scaler    *)
(* fit and the gradient descent reached is a member of TrainOutcomes.      *)
(* SpecTrain computes the fit and the descent themselves, on few examples. *)
(*                                                                         *)
(* Ten specifications:                                                     *)
(*   SpecClass    one LoanEligibilityModel, its methods in any order       *)
(*   Spec         the exported operations of the module and the services   *)
(*   SpecMetrics  calculateMetrics() over short sequences                  *)
(*   SpecOffers   fetchBankOffers() over short bank_offers tables          *)
(*   SpecFeatures engineerFeatures() over profiles                         *)
(*   SpecGenerate generateSyntheticData() over a few examples              *)
(*   SpecTrain    train() step by step over a few examples                 *)
(*   SpecExplain  generateExplanation() over statuses and applications     *)
(*   SpecSubmit   App.handleSubmit, one submission after another           *)
(*   SpecMount    App.initializeApp of several mounted Apps, interleaved   *)
(***************************************************************************)
EXTENDS Integers, Sequences, FiniteSets, TLC

VARIABLES
    m,              \* SpecClass: one LoanEligibilityModel instance
    remembered,     \* SpecClass: one earlier predict() call on m, [arg, ret], and
                    \* whether predict() ran on another profile since
    heap,           \* Spec: the LoanEligibilityModel instances constructed, by id
    globalModel,    \* Spec: the module variable globalModel, an id (Null: null)
    trainCalls,     \* executions of train()
    retrainCalls,   \* Spec: calls of trainNewModel()
    accessorLog,    \* Spec: the latest two calls of getOrCreateModel(), newest first
    db_applicants,     \* Spec: rows of table applicants
    db_predictions,    \* Spec: rows of table predictions
    db_audit_logs,     \* Spec: rows of table audit_logs
    db_model_metrics,  \* Spec: rows of table model_metrics
    sub,            \* Spec: the submitApplication call in flight, its position pc
    evalIn,         \* the specifications of one call: its arguments
    evalOut,        \* the specifications of one call: its result
    locals,         \* the specifications of one call: its local variables
    at,             \* SpecTrain: the position of the call in its code, and the
                    \* epoch; SpecSubmit, SpecMount: of the handler of each App
    app,            \* SpecSubmit, SpecMount: the mounted App components, the
                    \* state of each
    op,             \* the method of m, or the service call, that ran last
    arg,            \* its argument
    ret             \* what it returned or threw

classVars  == <<m, remembered>>
accessorVars == <<heap, globalModel, retrainCalls, accessorLog>>
moduleVars == <<accessorVars, trainCalls>>
dbVars     == <<db_applicants, db_predictions, db_audit_logs, db_model_metrics, sub>>
evalVars   == <<evalIn, evalOut, locals, at>>
callVars   == <<op, arg, ret>>
vars       == <<m, remembered, heap, globalModel, trainCalls, retrainCalls,
                accessorLog, db_applicants, db_predictions, db_audit_logs,
                db_model_metrics, sub, evalIn, evalOut, locals, at, app, op,
                arg, ret>>

(***************************************************************************)
(* Fixed point                                                             *)
(***************************************************************************)
HS == 100
NS == 100
WS == 100
PS == 1000000
LS == NS * WS

NaN == [nan |-> TRUE, v |-> 0]
Num(x) == [nan |-> FALSE, v |-> x]

Abs(x) == IF x < 0 THEN 0 - x ELSE x

\* floor(a * b / c) for b >= 0, c > 0, without forming a * b
MulDiv(a, b, c) == LET q == a \div c
                       r == a % c
                   IN  q * b + (r * b) \div c

\* Math.round(a / b) for b > 0: the nearest integer, a half going up
RoundDiv(a, b) == (2 * a + b) \div (2 * b)

\* floor(r * 10^k / d) for r >= 0, d > 0, digit by digit
RECURSIVE DivScaled(_, _, _)
DivScaled(r, d, k) ==
    IF k = 0 THEN r \div d
    ELSE (r \div d) * (10 ^ k) + DivScaled((r % d) * 10, d, k - 1)

\* f[1] + ... + f[n]
RECURSIVE SumTo(_, _)
SumTo(f, n) == IF n = 0 THEN 0 ELSE SumTo(f, n - 1) + f[n]

\* array.map(...): the new array, every element computed once
Array(f, length) == SubSeq(f, 1, length)

(***************************************************************************)
(* LoanEligibilityModel: encoders and feature engineering                  *)
(***************************************************************************)
EmploymentTypes == {"salaried", "self_employed", "business"}
MaritalStatuses == {"single", "married", "divorced", "widowed"}

\* Object.keys(features): the insertion order of engineerFeatures
FeatureNames == << "income", "credit_history", "loan_amount", "loan_term",
                   "dependents", "employment_encoded", "marital_encoded",
                   "loan_to_income_ratio", "monthly_burden",
                   "income_per_dependent", "credit_x_income", "risk_score" >>

FeatureSet == { FeatureNames[i] : i \in DOMAIN FeatureNames }

\* this.encoders after initializeEncoders(), in 1/HS
Encoders ==
    [ employment_type |-> [salaried |-> 80, self_employed |-> 50, business |-> 60],
      marital_status  |-> [married |-> 70, single |-> 50, divorced |-> 40,
                           widowed |-> 45] ]

\* a variant whose fallback is 0
EncodeOrZero(field, key) ==
    IF key \in DOMAIN Encoders[field] THEN Encoders[field][key] ELSE 0

\* this.encoders.get(field)?.get(key) || 0.5
Encode(field, key) ==
    IF key \in DOMAIN Encoders[field] /\ Encoders[field][key] # 0
    THEN Encoders[field][key]
    ELSE 50

\* a variant whose risk_score leaves out the factor (dependents + 1)
engineerFeaturesFlatRisk(data) ==
    [ income               |-> data.income,
      credit_history       |-> data.credit_history,
      loan_amount          |-> data.loan_amount,
      loan_term            |-> data.loan_term,
      dependents           |-> data.dependents,
      employment_encoded   |-> Encode("employment_type", data.employment_type),
      marital_encoded      |-> Encode("marital_status", data.marital_status),
      loan_to_income_ratio |-> (data.loan_amount * HS) \div (data.income + 1),
      monthly_burden       |-> data.loan_amount \div data.loan_term,
      income_per_dependent |-> data.income \div (data.dependents + 1),
      credit_x_income      |-> (data.credit_history * data.income) \div HS,
      risk_score           |-> MulDiv(data.loan_amount * (HS - data.credit_history),
                                      1, data.income + 1) ]

\* monthly_burden: loan_amount * 0.01 / loan_term in 1/HS INR is loan_amount / loan_term
engineerFeatures(data) ==
    [ income               |-> data.income,
      credit_history       |-> data.credit_history,
      loan_amount          |-> data.loan_amount,
      loan_term            |-> data.loan_term,
      dependents           |-> data.dependents,
      employment_encoded   |-> Encode("employment_type", data.employment_type),
      marital_encoded      |-> Encode("marital_status", data.marital_status),
      loan_to_income_ratio |-> (data.loan_amount * HS) \div (data.income + 1),
      monthly_burden       |-> data.loan_amount \div data.loan_term,
      income_per_dependent |-> data.income \div (data.dependents + 1),
      credit_x_income      |-> (data.credit_history * data.income) \div HS,
      risk_score           |-> MulDiv(data.loan_amount * (HS - data.credit_history),
                                      data.dependents + 1, data.income + 1) ]

(***************************************************************************)
(* LoanEligibilityModel: the instance                                      *)
(***************************************************************************)
EmptyMap == [ n \in {} |-> 0 ]

ZeroMetrics == [ accuracy |-> Num(0), precision |-> Num(0), recall |-> Num(0),
                 f1_score |-> Num(0), training_samples |-> 0,
                 validation_samples |-> 0 ]

\* new LoanEligibilityModel()
NewModel == [ weights |-> EmptyMap,
              scaler  |-> [mean |-> EmptyMap, std |-> EmptyMap],
              metrics |-> ZeroMetrics,
              version |-> "v1.0-ensemble" ]

\* map.get(name) || dflt
MapGet(map, name, dflt) ==
    IF name \in DOMAIN map /\ map[name] # 0 THEN map[name] ELSE dflt

IsTrained(model) == DOMAIN model.weights = FeatureSet
                    /\ DOMAIN model.scaler.mean = FeatureSet
                    /\ DOMAIN model.scaler.std = FeatureSet

\* the number 1 in the unit a feature is held in: whole INR, months and
\* dependents, and 1/HS for the fractions
Unit(name) ==
    IF name \in { "credit_history", "employment_encoded", "marital_encoded",
                  "loan_to_income_ratio", "monthly_burden", "risk_score" }
    THEN HS ELSE 1

\* (features[name] - mean) / std, in 1/NS
Normalize(model, features, name) ==
    MulDiv(features[name] - MapGet(model.scaler.mean, name, 0), NS,
           MapGet(model.scaler.std, name, Unit(name)))

\* normalized[name] * (this.weights.get(name) || 0), in 1/LS
Term(model, features, name) ==
    Normalize(model, features, name) * MapGet(model.weights, name, 0)

Logit(model, features) ==
    SumTo([ i \in DOMAIN FeatureNames |-> Term(model, features, FeatureNames[i]) ],
          Len(FeatureNames))

\* 1 / (1 + Math.exp(-x)) at x = 1, 2, ..., in 1/PS; 1 from x = 15 on
SigmoidTable == << 731059, 880797, 952574, 982014, 993307, 997527, 999089,
                   999665, 999877, 999955, 999983, 999994, 999998, 999999,
                   1000000 >>

SigmoidAt(k) == IF k = 0 THEN PS \div 2
                ELSE IF k >= Len(SigmoidTable) THEN PS
                ELSE SigmoidTable[k]

\* 1 / (1 + Math.exp(-logit)), logit in 1/LS, the result in 1/PS: the table,
\* linear between its points, and 1 - sigmoid(-logit) below 0
Sigmoid(logit) ==
    LET x  == Abs(logit)
        k  == x \div LS
        lo == SigmoidAt(k)
        hi == SigmoidAt(k + 1)
        p  == lo + MulDiv(hi - lo, x % LS, LS)
    IN  IF logit >= 0 THEN p ELSE PS - p

(***************************************************************************)
(* predict(): attributions                                                 *)
(***************************************************************************)
TopK == 5
PctS == 1000000

\* Math.abs(normalized[name] * weight)
Contribution(model, features, name) == Abs(Term(model, features, name))

TotalContribution(model, features) ==
    SumTo([ i \in DOMAIN FeatureNames |->
                Contribution(model, features, FeatureNames[i]) ],
          Len(FeatureNames))

\* (contrib / totalContribution) * 100, in 1/PctS of a percent point; 0 / 0 is NaN
Percentage(contrib, total) ==
    IF total = 0 THEN NaN ELSE Num(DivScaled(contrib, total, 8))

\* Object.entries(feature_attributions) after the percentages are written
AttributionEntries(model, features) ==
    LET total == TotalContribution(model, features)
    IN  [ i \in DOMAIN FeatureNames |->
            [ name  |-> FeatureNames[i],
              value |-> Percentage(Contribution(model, features, FeatureNames[i]),
                                   total) ] ]

\* the comparator (a, b) => b[1] - a[1] is negative: a sorts before b.
\* A NaN difference counts as 0 (SortCompare).
SortsBefore(a, b) == ~a.value.nan /\ ~b.value.nan /\ a.value.v > b.value.v

\* a variant that is not stable: of two entries that compare equal the later
\* one comes first
SortEntriesLaterFirst(entries) ==
    LET Precedes(i, j) == \/ SortsBefore(entries[i], entries[j])
                          \/ /\ ~SortsBefore(entries[j], entries[i])
                             /\ i > j
        Rank(i) == 1 + Cardinality({ j \in DOMAIN entries : j # i /\ Precedes(j, i) })
    IN  [ r \in DOMAIN entries |->
            entries[CHOOSE i \in DOMAIN entries : Rank(i) = r] ]

\* Array.prototype.sort with that comparator: stable
SortEntries(entries) ==
    LET Precedes(i, j) == \/ SortsBefore(entries[i], entries[j])
                          \/ /\ ~SortsBefore(entries[j], entries[i])
                             /\ i < j
        Rank(i) == 1 + Cardinality({ j \in DOMAIN entries : j # i /\ Precedes(j, i) })
    IN  [ r \in DOMAIN entries |->
            entries[CHOOSE i \in DOMAIN entries : Rank(i) = r] ]

\* Math.round(val * 100) / 100, in 1/HS of a percent point
RoundAttribution(value) ==
    IF value.nan THEN NaN ELSE Num(RoundDiv(value.v, PctS \div HS))

\* .sort(...).slice(0, 5).reduce(...): the kept entries in key order
SortedAttributions(model, features) ==
    LET sorted == SortEntries(AttributionEntries(model, features))
        kept   == SubSeq(sorted, 1, IF Len(sorted) < TopK THEN Len(sorted) ELSE TopK)
    IN  [ i \in DOMAIN kept |->
            [ name |-> kept[i].name, value |-> RoundAttribution(kept[i].value) ] ]

(***************************************************************************)
(* predict(): decision, score, confidence, explanation                     *)
(***************************************************************************)
BaseCreditScore == 300
MaxCreditScore == 850

\* a variant that rejects at exactly 0.5
EligibilityStatusAbove(probability_approved) ==
    IF 2 * probability_approved > PS THEN "Approved" ELSE "Rejected"

EligibilityStatus(probability_approved) ==
    IF 2 * probability_approved >= PS THEN "Approved" ELSE "Rejected"

\* a variant that scales the probability by maxCreditScore
CreditScoreFullScale(probability_approved) ==
    RoundDiv(BaseCreditScore * PS + probability_approved * MaxCreditScore, PS)

\* Math.round(baseCreditScore + probability_approved * scoreRange)
CreditScore(probability_approved) ==
    LET scoreRange == MaxCreditScore - BaseCreditScore
    IN  RoundDiv(BaseCreditScore * PS + probability_approved * scoreRange, PS)

\* a variant that reports the probability of approval whatever the status
PredictionConfidenceOfApproval(eligibility_status, probability_approved) ==
    RoundDiv(probability_approved * 100, PS)

\* a variant that reports the probability of rejection whatever the status
PredictionConfidenceOfRejection(eligibility_status, probability_approved) ==
    RoundDiv((PS - probability_approved) * 100, PS)

\* Math.round((Approved ? p : 1 - p) * 100)
PredictionConfidence(eligibility_status, probability_approved) ==
    RoundDiv((IF eligibility_status = "Approved" THEN probability_approved
              ELSE PS - probability_approved) * 100, PS)

RECURSIVE Join(_, _)
Join(reasons, sep) ==
    IF reasons = <<>> THEN <<>>
    ELSE IF Len(reasons) = 1 THEN reasons
    ELSE <<Head(reasons), sep>> \o Join(Tail(reasons), sep)

\* a variant whose first rule wants credit_history above 0.7
ReasonsAbove(status, features, data) ==
    IF status = "Approved"
    THEN (IF data.credit_history > 70 THEN <<"strong credit history">> ELSE <<>>)
         \o (IF data.loan_amount < 3 * (data.income + 1)
             THEN <<"healthy loan-to-income ratio">> ELSE <<>>)
         \o (IF data.employment_type = "salaried" THEN <<"stable employment">> ELSE <<>>)
         \o (IF data.income > 500000 THEN <<"good income level">> ELSE <<>>)
    ELSE (IF data.credit_history < 50 THEN <<"weak credit history">> ELSE <<>>)
         \o (IF data.loan_amount > 5 * (data.income + 1)
             THEN <<"high loan-to-income ratio">> ELSE <<>>)
         \o (IF features.risk_score > 1000000 * HS
             THEN <<"elevated risk score">> ELSE <<>>)
         \o (IF data.dependents > 3 THEN <<"higher number of dependents">> ELSE <<>>)

\* the tests on features.loan_to_income_ratio are made on the fraction it is,
\* loan_amount / (income + 1)
Reasons(status, features, data) ==
    IF status = "Approved"
    THEN (IF data.credit_history >= 70 THEN <<"strong credit history">> ELSE <<>>)
         \o (IF data.loan_amount < 3 * (data.income + 1)
             THEN <<"healthy loan-to-income ratio">> ELSE <<>>)
         \o (IF data.employment_type = "salaried" THEN <<"stable employment">> ELSE <<>>)
         \o (IF data.income > 500000 THEN <<"good income level">> ELSE <<>>)
    ELSE (IF data.credit_history < 50 THEN <<"weak credit history">> ELSE <<>>)
         \o (IF data.loan_amount > 5 * (data.income + 1)
             THEN <<"high loan-to-income ratio">> ELSE <<>>)
         \o (IF features.risk_score > 1000000 * HS
             THEN <<"elevated risk score">> ELSE <<>>)
         \o (IF data.dependents > 3 THEN <<"higher number of dependents">> ELSE <<>>)

\* a variant that leaves the clause out when no reason was pushed
generateExplanationOmittingClause(status, topFeatures, features, data) ==
    << "Application ", (IF status = "Approved" THEN "approved" ELSE "rejected") >>
    \o (IF Reasons(status, features, data) = <<>> THEN <<>>
        ELSE << " based on " >> \o Join(Reasons(status, features, data), ", "))
    \o << "." >>

\* `Application ${status.toLowerCase()} based on ${reasons.join(', ')}.`, as its pieces
generateExplanation(status, topFeatures, features, data) ==
    << "Application ", (IF status = "Approved" THEN "approved" ELSE "rejected"),
       " based on " >>
    \o Join(Reasons(status, features, data), ", ")
    \o << "." >>

predict(model, data) ==
    LET features == engineerFeatures(data)
        logit == Logit(model, features)
        probability_approved == Sigmoid(logit)
        sortedAttributions == SortedAttributions(model, features)
        eligibility_status == EligibilityStatus(probability_approved)
        topFeatures == [ i \in 1..(IF Len(sortedAttributions) < 3
                                   THEN Len(sortedAttributions) ELSE 3) |->
                            sortedAttributions[i].name ]
    IN  [ eligibility_status    |-> eligibility_status,
          credit_score          |-> CreditScore(probability_approved),
          prediction_confidence |-> PredictionConfidence(eligibility_status,
                                                         probability_approved),
          probability_approved  |-> probability_approved,
          feature_attributions  |-> sortedAttributions,
          explanation           |-> generateExplanation(eligibility_status,
                                        topFeatures, features, data) ]

(***************************************************************************)
(* calculateMetrics()                                                      *)
(***************************************************************************)
\* a variant that counts no predicted approval as full precision
PrecisionVacuous(tp, fp) ==
    IF tp + fp > 0 THEN (tp * 100 * HS) \div (tp + fp) ELSE 100 * HS

\* (tp / (tp + fp)) * 100 guarded by tp + fp > 0, in 1/HS of a percent point
Precision(tp, fp) == IF tp + fp > 0 THEN (tp * 100 * HS) \div (tp + fp) ELSE 0

Recall(tp, fn) == IF tp + fn > 0 THEN (tp * 100 * HS) \div (tp + fn) ELSE 0

F1Score(precision, recall) ==
    IF precision + recall > 0
    THEN (2 * precision * recall) \div (precision + recall)
    ELSE 0

\* ((tp + tn) / predictions.length) * 100; 0 / 0 is NaN
Accuracy(tp, tn, length) ==
    IF length = 0 THEN NaN ELSE Num(((tp + tn) * 100 * HS) \div length)

calculateMetrics(predictions, actuals) ==
    LET pred(i)   == IF 2 * predictions[i] >= PS THEN 1 ELSE 0
        \* actuals[i] past the end of actuals is undefined: no branch counts it
        actual(i) == IF i \in DOMAIN actuals THEN actuals[i] ELSE -1
        Count(pv, av) ==
            Cardinality({ i \in DOMAIN predictions : pred(i) = pv /\ actual(i) = av })
        tp == Count(1, 1)
        fp == Count(1, 0)
        tn == Count(0, 0)
        fn == Count(0, 1)
        precision == Precision(tp, fp)
        recall == Recall(tp, fn)
    IN  [ accuracy  |-> Accuracy(tp, tn, Len(predictions)),
          precision |-> Num(precision),
          recall    |-> Num(recall),
          f1_score  |-> Num(F1Score(precision, recall)),
          \* Math.floor(predictions.length * 0.8), Math.ceil(predictions.length * 0.2)
          training_samples   |-> (Len(predictions) * 8) \div 10,
          validation_samples |-> (Len(predictions) * 2 + 9) \div 10 ]

(***************************************************************************)
(* train()                                                                 *)
(***************************************************************************)
TotalSamples == 5000

\* generateSyntheticData(samples): what Math.random() drew is `draw`, a record
\* [first, rest, cut]: example i repeats the examples of `first` up to
\* example `cut` and those of `rest` after it
generateSyntheticData(samples, draw) ==
    [ i \in 1..samples |->
        IF i <= draw.cut
        THEN draw.first[((i - 1) % Len(draw.first)) + 1]
        ELSE draw.rest[((i - 1) % Len(draw.rest)) + 1] ]

\* trainEnsemble(trainingData): the scaler fit and the 100 epochs of gradient
\* descent from random initial weights leave this.scaler and this.weights set
\* for every feature name; `outcome` is what they came to
trainEnsemble(model, trainingData, outcome) ==
    [ model EXCEPT !.scaler  = [mean |-> outcome.mean, std |-> outcome.std],
                   !.weights = outcome.weights ]

train(model, draw, outcome) ==
    LET syntheticData  == generateSyntheticData(TotalSamples, draw)
        splitIndex     == (TotalSamples * 8) \div 10
        trainingData   == SubSeq(syntheticData, 1, splitIndex)
        validationData == SubSeq(syntheticData, splitIndex + 1, TotalSamples)
        fitted         == trainEnsemble(model, trainingData, outcome)
        validationPredictions ==
            Array([ i \in DOMAIN validationData |->
                      Sigmoid(Logit(fitted, engineerFeatures(validationData[i]))) ],
                  Len(validationData))
        actuals ==
            Array([ i \in DOMAIN validationData |-> validationData[i].approved ],
                  Len(validationData))
    IN  [ fitted EXCEPT !.metrics = calculateMetrics(validationPredictions, actuals) ]

\* a variant in which predict() moves the scaler towards what it has seen
AfterPredictAdapting(model, data) ==
    IF IsTrained(model)
    THEN [model EXCEPT !.scaler.mean.income = data.income]
    ELSE model

\* a variant in which predict() refits the spread of income to the profile
AfterPredictRefitting(model, data) ==
    IF IsTrained(model)
    THEN [model EXCEPT !.scaler.std.income = data.income + 1]
    ELSE model

\* predict() assigns no field of the instance
AfterPredict(model, data) == model

(***************************************************************************)
(* Inputs: applicant profiles, and what a training run can draw and reach  *)
(***************************************************************************)
Profile(income, credit_history, loan_amount, loan_term, employment_type, dependents, marital_status) ==
    [ income |-> income, credit_history |-> credit_history,
      loan_amount |-> loan_amount, loan_term |-> loan_term,
      employment_type |-> employment_type, dependents |-> dependents,
      marital_status |-> marital_status ]

ScenarioA  == Profile(1200000, 90, 1000000, 240, "salaried", 1, "married")
ScenarioB  == Profile(150000, 10, 4000000, 360, "self_employed", 4, "single")
Average    == Profile(600000, 50, 2500000, 180, "business", 2, "divorced")
LargeHouse == Profile(800000, 90, 2000000, 240, "business", 4, "widowed")
NoIncome   == Profile(0, 50, 100000, 12, "self_employed", 0, "single")

Profiles == { ScenarioA, ScenarioB, Average, LargeHouse, NoIncome }

\* the profiles submitted through the service
Applications == { ScenarioB, Average }

Example(profile, approved) ==
    [ income |-> profile.income, credit_history |-> profile.credit_history,
      loan_amount |-> profile.loan_amount, loan_term |-> profile.loan_term,
      employment_type |-> profile.employment_type,
      dependents |-> profile.dependents,
      marital_status |-> profile.marital_status, approved |-> approved ]

\* examples inside the generator's ranges, labelled as its heuristic labels them
\* whatever the noise
Strong   == Example(Profile(1800000, 95, 300000, 120, "salaried", 0, "married"), 1)
Solid    == Example(ScenarioA, 1)
Weak     == Example(Profile(250000, 10, 4000000, 300, "self_employed", 4, "single"), 0)
Stretched == Example(Profile(600000, 40, 2500000, 180, "business", 2, "divorced"), 0)

\* approved and rejected examples throughout
Mixed ==
    [ first |-> <<Strong, Weak, Solid, Stretched>>,
      rest  |-> <<Strong, Weak, Solid, Stretched>>, cut |-> TotalSamples ]

\* no approved example after the first 4000
Skewed ==
    [ first |-> <<Strong, Solid, Weak, Stretched>>,
      rest  |-> <<Weak, Stretched>>, cut |-> (TotalSamples * 8) \div 10 ]

Draws == { Mixed, Skewed }

\* the population statistics of the generator's distributions
TypicalMean ==
    [ income |-> 1100000, credit_history |-> 50, loan_amount |-> 2550000,
      loan_term |-> 185, dependents |-> 2, employment_encoded |-> 63,
      marital_encoded |-> 51, loan_to_income_ratio |-> 330,
      monthly_burden |-> 25000, income_per_dependent |-> 502000,
      credit_x_income |-> 550000, risk_score |-> 495 ]

TypicalStd ==
    [ income |-> 519615, credit_history |-> 29, loan_amount |-> 1414508,
      loan_term |-> 100, dependents |-> 1, employment_encoded |-> 12,
      marital_encoded |-> 11, loan_to_income_ratio |-> 350,
      monthly_burden |-> 40000, income_per_dependent |-> 400000,
      credit_x_income |-> 420000, risk_score |-> 700 ]

Typical ==
    [ mean |-> TypicalMean, std |-> TypicalStd,
      weights |-> [ income |-> 15, credit_history |-> 60, loan_amount |-> -20,
                    loan_term |-> 2, dependents |-> -10,
                    employment_encoded |-> 12, marital_encoded |-> 1,
                    loan_to_income_ratio |-> -35, monthly_burden |-> -5,
                    income_per_dependent |-> 8, credit_x_income |-> 30,
                    risk_score |-> -40 ] ]

\* a run that left weight on three features only
Sparse ==
    [ mean |-> [TypicalMean EXCEPT !.loan_term = 180],
      std  |-> [TypicalStd EXCEPT !.loan_term = 120, !.credit_history = 20],
      weights |-> [ income |-> 0, credit_history |-> 10, loan_amount |-> 0,
                    loan_term |-> 40, dependents |-> 40,
                    employment_encoded |-> 0, marital_encoded |-> 0,
                    loan_to_income_ratio |-> 0, monthly_burden |-> 0,
                    income_per_dependent |-> 0, credit_x_income |-> 0,
                    risk_score |-> 0 ] ]

TrainOutcomes == { Typical, Sparse }

\* the train() runs considered: what was drawn and what the descent reached
Runs == { [draw |-> Mixed, outcome |-> Typical],
          [draw |-> Skewed, outcome |-> Sparse] }

(***************************************************************************)
(* What a call returned                                                    *)
(***************************************************************************)
NoArg == [ none |-> TRUE ]
NoRet == [ kind |-> "none" ]
Returned(value) == [ kind |-> "return", value |-> value ]
Thrown(error) == [ kind |-> "throw", error |-> error ]

Null == 0

\* no submitApplication call in flight, `calls` of them made so far
Idle(calls) == [ pc |-> "idle", calls |-> calls ]
NoSub == Idle(0)

ClassIdle == m = NewModel /\ remembered = <<>>
ModuleIdle == /\ heap = <<>>
              /\ globalModel = Null
              /\ trainCalls = 0
              /\ retrainCalls = 0
              /\ accessorLog = <<>>
DbIdle == /\ db_applicants = <<>>
          /\ db_predictions = <<>>
          /\ db_audit_logs = <<>>
          /\ db_model_metrics = <<>>
          /\ sub = NoSub
EvalIdle == evalIn = <<>> /\ evalOut = NoRet /\ locals = <<>> /\ at = <<>>
AppIdle == app = <<>>
CallIdle == op = "none" /\ arg = NoArg /\ ret = NoRet

(***************************************************************************)
(* SpecClass: one LoanEligibilityModel instance, its public methods called *)
(* in any order                                                            *)
(***************************************************************************)
MaxTrains == 1

ClassInit == ClassIdle /\ ModuleIdle /\ DbIdle /\ AppIdle /\ EvalIdle /\ CallIdle

ClassTrain ==
    /\ trainCalls < MaxTrains
    /\ \E run \in Runs :
        /\ m' = train(m, run.draw, run.outcome)
        /\ trainCalls' = trainCalls + 1
        /\ remembered' = <<>>
        /\ op' = "train"
        /\ arg' = NoArg
        /\ ret' = Returned(m'.metrics)
        /\ UNCHANGED <<app, accessorVars, dbVars, evalVars>>

ClassPredict ==
    \E data \in Profiles :
        LET result == predict(m, data)
        IN  /\ m' = AfterPredict(m, data)
            /\ remembered' \in
                   { IF remembered # <<>> /\ remembered[1].arg # data
                     THEN << [remembered[1] EXCEPT !.between = TRUE] >>
                     ELSE remembered,
                     << [arg |-> data, ret |-> result, between |-> FALSE] >> }
            /\ op' = "predict"
            /\ arg' = data
            /\ ret' = Returned(result)
            /\ UNCHANGED <<app, moduleVars, dbVars, evalVars>>

ClassGetMetrics ==
    /\ op' = "getMetrics"
    /\ arg' = NoArg
    /\ ret' = Returned(m.metrics)
    /\ UNCHANGED <<app, classVars, moduleVars, dbVars, evalVars>>

ClassNext == ClassTrain \/ ClassPredict \/ ClassGetMetrics

SpecClass == ClassInit /\ [][ClassNext]_vars

(***************************************************************************)
(* The module: globalModel, getOrCreateModel(), trainNewModel()            *)
(***************************************************************************)
\* new LoanEligibilityModel() followed by train(): the instances that can result
FreshlyTrained == { train(NewModel, run.draw, run.outcome) : run \in Runs }

\* a variant that constructs and trains on every call
NeedsModelAlways(g) == TRUE

\* !globalModel
NeedsModel(g) == g = Null

\* a variant with train() outside the test
getOrCreateModelRetraining(h, g, trained) ==
    IF g = Null
    THEN [ heap |-> Append(h, trained), globalModel |-> Len(h) + 1, trains |-> 1 ]
    ELSE [ heap |-> [h EXCEPT ![g] = trained], globalModel |-> g, trains |-> 1 ]

\* getOrCreateModel(): the heap and globalModel it leaves and the train() calls
\* it made; `trained` is the new instance after its train()
getOrCreateModel(h, g, trained) ==
    IF NeedsModel(g)
    THEN [ heap |-> Append(h, trained), globalModel |-> Len(h) + 1, trains |-> 1 ]
    ELSE [ heap |-> h, globalModel |-> g, trains |-> 0 ]

\* a variant whose new instance takes over the scaler of the instance it replaces
trainNewModelKeepingScaler(h, g, trained) ==
    [ heap |-> Append(h, IF g = Null THEN trained
                         ELSE [trained EXCEPT !.scaler = h[g].scaler]),
      globalModel |-> Len(h) + 1, trains |-> 1 ]

\* trainNewModel()
trainNewModel(h, g, trained) ==
    [ heap |-> Append(h, trained), globalModel |-> Len(h) + 1, trains |-> 1 ]

Logged(log, call) == IF log = <<>> THEN <<call>> ELSE <<call, log[1]>>

\* a call of getOrCreateModel() inside a step, returning globalModel'
Access(trained) ==
    LET after == getOrCreateModel(heap, globalModel, trained)
    IN  /\ globalModel' = after.globalModel
        /\ trainCalls' = trainCalls + after.trains
        /\ accessorLog' = Logged(accessorLog,
                                 [ returned |-> after.globalModel,
                                   epoch    |-> retrainCalls,
                                   trained  |-> after.trains > 0 ])
        /\ UNCHANGED retrainCalls

HeapAfterAccess(trained) == getOrCreateModel(heap, globalModel, trained).heap

\* the instances the next getOrCreateModel() can come to hold after train();
\* which one is of no matter when it constructs none
Trainable == IF NeedsModel(globalModel) THEN FreshlyTrained ELSE { NewModel }

MaxRetrains == 1
MaxSubmits == 1
MaxMetricsRows == 1

Init == ClassIdle /\ ModuleIdle /\ DbIdle /\ AppIdle /\ EvalIdle /\ CallIdle

GetOrCreateModel ==
    \E trained \in Trainable :
        /\ Access(trained)
        /\ heap' = HeapAfterAccess(trained)
        /\ UNCHANGED <<app, classVars, dbVars, evalVars, callVars>>

TrainNewModel ==
    /\ retrainCalls < MaxRetrains
    /\ \E trained \in FreshlyTrained :
        LET after == trainNewModel(heap, globalModel, trained)
        IN  /\ heap' = after.heap
            /\ globalModel' = after.globalModel
            /\ trainCalls' = trainCalls + after.trains
            /\ retrainCalls' = retrainCalls + 1
            /\ UNCHANGED <<app, accessorLog, classVars, dbVars, evalVars, callVars>>

(***************************************************************************)
(* predictionService: submitApplication(), initializeModelMetrics()        *)
(***************************************************************************)
\* submitApplication(applicantData) up to its first await: the insert into
\* applicants is sent
SubmitApplication ==
    /\ sub.pc = "idle"
    /\ sub.calls < MaxSubmits
    /\ \E applicantData \in Applications :
        /\ sub' = [ pc |-> "applicant", calls |-> sub.calls + 1,
                    applicantData |-> applicantData ]
        /\ op' = "submitApplication"
        /\ arg' = applicantData
        /\ ret' = NoRet
    /\ UNCHANGED <<app, classVars, moduleVars, evalVars, db_applicants, db_predictions,
                   db_audit_logs, db_model_metrics>>

\* the applicants insert failed: throw
SubmitApplicantFailed ==
    /\ sub.pc = "applicant"
    /\ sub' = Idle(sub.calls)
    /\ ret' = Thrown("Failed to insert applicant")
    /\ UNCHANGED <<app, classVars, moduleVars, evalVars, db_applicants, db_predictions,
                   db_audit_logs, db_model_metrics, op, arg>>

\* the applicants insert succeeded: getOrCreateModel(), predict(), and the
\* insert into predictions is sent
SubmitPredict ==
    /\ sub.pc = "applicant"
    /\ \E trained \in Trainable :
        LET applicant == [ id |-> Len(db_applicants) + 1, data |-> sub.applicantData ]
            created == HeapAfterAccess(trained)
            model == created[globalModel']
            predictionResult == predict(model, sub.applicantData)
            predictionData ==
                [ applicant_id          |-> applicant.id,
                  eligibility_status    |-> predictionResult.eligibility_status,
                  credit_score          |-> predictionResult.credit_score,
                  prediction_confidence |-> predictionResult.prediction_confidence,
                  feature_attributions  |-> predictionResult.feature_attributions,
                  explanation           |-> predictionResult.explanation,
                  model_version         |-> model.version ]
        IN  /\ db_applicants' = Append(db_applicants, applicant)
            /\ Access(trained)
            /\ heap' = [ created EXCEPT
                           ![globalModel'] = AfterPredict(@, sub.applicantData) ]
            /\ sub' = [ pc |-> "prediction", calls |-> sub.calls,
                        applicantData |-> sub.applicantData,
                        applicant |-> applicant,
                        predictionResult |-> predictionResult,
                        predictionData |-> predictionData ]
    /\ UNCHANGED <<app, classVars, evalVars, db_predictions, db_audit_logs,
                   db_model_metrics, op, arg, ret>>

\* a variant that takes the applicant row back when the predictions insert failed
SubmitPredictionFailedUndoing ==
    /\ sub.pc = "prediction"
    /\ sub' = Idle(sub.calls)
    /\ ret' = Thrown("Failed to insert prediction")
    /\ db_applicants' = SubSeq(db_applicants, 1, Len(db_applicants) - 1)
    /\ UNCHANGED <<app, classVars, moduleVars, evalVars, db_predictions,
                   db_audit_logs, db_model_metrics, op, arg>>

\* the predictions insert failed: throw
SubmitPredictionFailed ==
    /\ sub.pc = "prediction"
    /\ sub' = Idle(sub.calls)
    /\ ret' = Thrown("Failed to insert prediction")
    /\ UNCHANGED <<app, classVars, moduleVars, evalVars, db_applicants, db_predictions,
                   db_audit_logs, db_model_metrics, op, arg>>

\* the predictions insert succeeded: the insert into audit_logs is sent
SubmitAudit ==
    /\ sub.pc = "prediction"
    /\ LET prediction == [ id |-> Len(db_predictions) + 1,
                           data |-> sub.predictionData ]
       IN  /\ db_predictions' = Append(db_predictions, prediction)
           /\ sub' = [ pc |-> "audit", calls |-> sub.calls,
                       applicantData |-> sub.applicantData,
                       applicant |-> sub.applicant,
                       predictionResult |-> sub.predictionResult,
                       prediction |-> prediction ]
    /\ UNCHANGED <<app, classVars, moduleVars, evalVars, db_applicants, db_audit_logs,
                   db_model_metrics, op, arg, ret>>

\* the audit_logs insert ended, its outcome not looked at: return
SubmitReturn ==
    /\ sub.pc = "audit"
    /\ \E inserted \in BOOLEAN :
        db_audit_logs' =
            IF inserted
            THEN Append(db_audit_logs,
                        [ prediction_id |-> sub.prediction.id,
                          action |-> "prediction_created",
                          metadata |->
                              [ applicant_id |-> sub.applicant.id,
                                eligibility_status |->
                                    sub.predictionResult.eligibility_status ] ])
            ELSE db_audit_logs
    /\ sub' = Idle(sub.calls)
    /\ ret' = Returned([ applicant |-> sub.applicant,
                         prediction |-> sub.prediction,
                         predictionResult |-> sub.predictionResult ])
    /\ UNCHANGED <<app, classVars, moduleVars, evalVars, db_applicants, db_predictions,
                   db_model_metrics, op, arg>>

\* initializeModelMetrics(): the row of the model's metrics, inserted or not
InitializeModelMetrics ==
    /\ Len(db_model_metrics) < MaxMetricsRows
    /\ \E trained \in Trainable, inserted \in BOOLEAN :
        LET created == HeapAfterAccess(trained)
            model == created[globalModel']
            metrics == model.metrics
            row == [ model_version |-> model.version,
                     accuracy |-> metrics.accuracy,
                     precision |-> metrics.precision,
                     recall |-> metrics.recall,
                     f1_score |-> metrics.f1_score,
                     training_samples |-> metrics.training_samples,
                     validation_samples |-> metrics.validation_samples ]
        IN  /\ Access(trained)
            /\ heap' = created
            /\ db_model_metrics' =
                   IF inserted THEN Append(db_model_metrics, row) ELSE db_model_metrics
    /\ UNCHANGED <<app, classVars, evalVars, db_applicants, db_predictions,
                   db_audit_logs, sub, op, arg, ret>>

Next ==
    \/ GetOrCreateModel
    \/ TrainNewModel
    \/ SubmitApplication
    \/ SubmitApplicantFailed
    \/ SubmitPredict
    \/ SubmitPredictionFailed
    \/ SubmitAudit
    \/ SubmitReturn
    \/ InitializeModelMetrics

Spec == Init /\ [][Next]_vars

(***************************************************************************)
(* SpecMetrics: calculateMetrics() on its own, over short sequences of     *)
(* predicted probabilities and of labels                                   *)
(***************************************************************************)
MaxLen == 3

Probabilities == { 0, 499999, 500000, 1000000 }
Labels == { 0, 1 }

SeqsUpTo(S, n) == UNION { [1..k -> S] : k \in 0..n }

MetricsInit ==
    /\ ClassIdle /\ ModuleIdle /\ DbIdle /\ AppIdle /\ CallIdle
    /\ evalIn \in { <<predictions, actuals>> :
                       predictions \in SeqsUpTo(Probabilities, MaxLen),
                       actuals \in SeqsUpTo(Labels, MaxLen) }
    /\ evalOut = NoRet
    /\ locals = <<>> /\ at = <<>>

CalculateMetrics ==
    /\ evalOut = NoRet
    /\ evalOut' = Returned(calculateMetrics(evalIn[1], evalIn[2]))
    /\ UNCHANGED <<app, classVars, moduleVars, dbVars, callVars, evalIn, locals, at>>

SpecMetrics == MetricsInit /\ [][CalculateMetrics]_vars

(***************************************************************************)
(* Properties of the module, under Spec                                    *)
(***************************************************************************)
\* C3, as stated: any two calls of getOrCreateModel() return the same
\* instance whatever ran between them, and the later call trains nothing
C3_AccessorAlwaysSameInstance ==
    Len(accessorLog) = 2 =>
        /\ accessorLog[1].returned = accessorLog[2].returned
        /\ ~accessorLog[1].trained

\* C3: two calls of getOrCreateModel() with no trainNewModel() between them
\* return the same instance, and a call that follows another trains nothing
C3_AccessorSameInstanceUntilRetrain ==
    Len(accessorLog) = 2 =>
        /\ accessorLog[1].epoch = accessorLog[2].epoch
               => accessorLog[1].returned = accessorLog[2].returned
        /\ ~accessorLog[1].trained

C3_Witness ==
    /\ Len(accessorLog) = 2
    /\ accessorLog[1].epoch = accessorLog[2].epoch
    /\ accessorLog[1].returned = accessorLog[2].returned
    /\ retrainCalls > 0 /\ accessorLog[1].epoch = retrainCalls
    /\ sub.pc = "prediction" /\ Len(db_model_metrics) > 0

\* C4, as stated: train() executes at most once
C4_TrainAtMostOnce == trainCalls <= 1

\* C4: train() executes once in every trainNewModel() call and at most once
\* more, in a getOrCreateModel() that found no instance; a prediction request
\* that finds an instance trains nothing
C4_TrainOncePerRetrainAndOnceLazily ==
    /\ trainCalls - retrainCalls \in {0, 1}
    /\ \A i \in DOMAIN accessorLog :
           accessorLog[i].trained =>
               accessorLog[i].returned = 1 /\ accessorLog[i].epoch = 0

C4_Witness ==
    /\ trainCalls = 2 /\ retrainCalls = 1
    /\ Len(db_predictions) > 0
    /\ accessorLog # <<>> /\ accessorLog[1].trained

(***************************************************************************)
(* Properties of calculateMetrics(), under SpecMetrics                     *)
(***************************************************************************)
Percent(x) == ~x.nan /\ x.v \in 0..(100 * HS)

NoneApproved == \A i \in DOMAIN evalIn[1] : 2 * evalIn[1][i] < PS

Attributions == ret.value.feature_attributions

\* C1: after train() on the 5000 generated samples the cached metrics hold the
\* sizes of the 80/20 split: training_samples = 4000, validation_samples = 1000
C1_MetricsHoldSplitSizes ==
    op = "train" =>
        /\ m.metrics = ret.value
        /\ m.metrics.training_samples = 4000
        /\ m.metrics.validation_samples = 1000

\* C2: predict() on an instance whose train() has not run ends in an error,
\* it returns no PredictionResult
C2_UntrainedPredictFails ==
    (op = "predict" /\ ~IsTrained(m)) => ret.kind = "throw"

\* C5: on a trained model predict() returns an integer credit_score in
\* 300..850 and an integer prediction_confidence in 0..100
C5_ScoreAndConfidenceInRange ==
    (op = "predict" /\ IsTrained(m)) =>
        /\ ret.value.credit_score \in BaseCreditScore..MaxCreditScore
        /\ ret.value.prediction_confidence \in 0..100

C5_Witness ==
    /\ op = "predict" /\ IsTrained(m)
    /\ ret.value.credit_score = BaseCreditScore
    /\ ret.value.prediction_confidence = 100

\* C6: a PredictionResult is Approved exactly when probability_approved >= 0.5,
\* 0.5 included
C6_ApprovedIffAtLeastHalf ==
    op = "predict" =>
        (ret.value.eligibility_status = "Approved"
            <=> 2 * ret.value.probability_approved >= PS)

C6_Witness ==
    /\ op = "predict" /\ IsTrained(m)
    /\ 2 * ret.value.probability_approved = PS
    /\ ret.value.eligibility_status = "Approved"

\* C7: feature_attributions has at most 5 entries, every value is a number in
\* [0, 100], and the values do not increase along the entries
C7_AttributionsBoundedAndOrdered ==
    op = "predict" =>
        /\ Len(Attributions) <= TopK
        /\ \A i \in DOMAIN Attributions :
               /\ ~Attributions[i].value.nan
               /\ Attributions[i].value.v \in 0..(100 * HS)
        /\ \A i \in 1..(Len(Attributions) - 1) :
               Attributions[i].value.v >= Attributions[i + 1].value.v

\* C8: the values kept in feature_attributions, when they are numbers, sum to
\* at most 100
C8_AttributionsSumAtMost100 ==
    (op = "predict" /\ \A i \in DOMAIN Attributions : ~Attributions[i].value.nan) =>
        SumTo([ i \in DOMAIN Attributions |-> Attributions[i].value.v ],
              Len(Attributions)) <= 100 * HS

\* C9: on a trained model, a predict() call with the profile of an earlier
\* call returns what that call returned, whatever predict() calls ran between
C9_SameProfileSameResult ==
    (op = "predict" /\ IsTrained(m) /\ remembered # <<>> /\ remembered[1].arg = arg) =>
        ret = Returned(remembered[1].ret)

C9_Witness ==
    /\ op = "predict" /\ IsTrained(m)
    /\ remembered # <<>> /\ remembered[1].arg = arg /\ remembered[1].between
    /\ ret = Returned(remembered[1].ret)

\* C16: a predict() call leaves scaler.mean, scaler.std, weights and the cached
\* metrics as they were, so that after any number of predict() calls a trained
\* model still holds what train() set
C16_PredictKeepsTrainedParameters ==
    [][ op' = "predict" =>
            /\ m'.scaler = m.scaler
            /\ m'.weights = m.weights
            /\ m'.metrics = m.metrics
            /\ IsTrained(m) => m' \in FreshlyTrained ]_vars

C16_Witness ==
    /\ op = "predict" /\ IsTrained(m)
    /\ remembered # <<>> /\ remembered[1].between /\ remembered[1].arg # arg
    /\ m \in FreshlyTrained

\* n is x / PS rounded to the nearest integer, a half going up
IsRounded(n, x) ==
    /\ 0 - PS <= 2 * (x - n * PS)
    /\ 2 * (x - n * PS) < PS

\* C15: credit_score is round(300 + probability_approved * 550), and
\* prediction_confidence is round(probability_approved * 100) of an Approved
\* result and round((1 - probability_approved) * 100) of a Rejected one
C15_ScoreAndConfidenceFormulas ==
    op = "predict" =>
        LET p == ret.value.probability_approved
        IN  /\ IsRounded(ret.value.credit_score, 300 * PS + p * 550)
            /\ ret.value.eligibility_status = "Approved" =>
                   IsRounded(ret.value.prediction_confidence, p * 100)
            /\ ret.value.eligibility_status = "Rejected" =>
                   IsRounded(ret.value.prediction_confidence, (PS - p) * 100)

C15_Witness ==
    /\ op = "predict" /\ IsTrained(m)
    /\ ret.value.eligibility_status = "Rejected"
    /\ ret.value.probability_approved > 0
    /\ (ret.value.probability_approved * 550) % PS # 0
    /\ ret.value.prediction_confidence > 50
    /\ ret.value.credit_score > 300

(***************************************************************************)
(* Properties of submitApplication(), under Spec                           *)
(***************************************************************************)
\* C11: once submitApplication has returned, audit_logs holds a
\* 'prediction_created' row for the prediction row it stored, also when the
\* store rejected the audit_logs insert
C11_ReturnedPredictionIsAudited ==
    (sub.pc = "idle" /\ ret.kind = "return") =>
        \E i \in DOMAIN db_audit_logs :
            /\ db_audit_logs[i].prediction_id = ret.value.prediction.id
            /\ db_audit_logs[i].action = "prediction_created"

(***************************************************************************)
(* SpecOffers: fetchBankOffers() on its own, over short bank_offers        *)
(* tables.  Rates and fees are in 1/HS of a percent point.  The EMI and    *)
(* total-payable fields of a RankedBankOffer are left out.                 *)
(***************************************************************************)
Offer(bank_name, interest_rate, processing_fee, loan_amount_min, loan_amount_max, loan_term_max, is_active) ==
    [ bank_name |-> bank_name, interest_rate |-> interest_rate,
      processing_fee |-> processing_fee,
      loan_amount_min |-> loan_amount_min, loan_amount_max |-> loan_amount_max,
      loan_term_min |-> 12, loan_term_max |-> loan_term_max,
      is_active |-> is_active ]

\* three rows of the migration, a row with a lower interest rate than HDFC's,
\* a higher fee and no term under 240 months, and a row that is not active
BankOffers ==
    { Offer("State Bank of India - Karnataka", 990, 35, 100000, 10000000, 360, TRUE),
      Offer("HDFC Bank", 970, 50, 100000, 10000000, 360, TRUE),
      Offer("Karnataka Vikas Grameena Bank", 1075, 150, 25000, 2500000, 180, TRUE),
      [ Offer("Promo", 960, 200, 100000, 10000000, 360, TRUE)
            EXCEPT !.loan_term_min = 240 ],
      Offer("Withdrawn", 900, 0, 100000, 10000000, 360, FALSE) }

\* annualRate + processingFeePercent * 0.1, in 1/(10 * HS) of a percent point
calculateEffectiveAnnualRate(annualRate, processingFeePercent) ==
    annualRate * 10 + processingFeePercent

\* a variant whose query leaves out .eq('is_active', true)
MatchesInactiveToo(offer, loanAmount, loanTerm) ==
    /\ offer.loan_amount_min <= loanAmount
    /\ offer.loan_amount_max >= loanAmount
    /\ offer.loan_term_min <= loanTerm
    /\ offer.loan_term_max >= loanTerm

\* .eq('is_active', true).lte('loan_amount_min', loanAmount)
\* .gte('loan_amount_max', loanAmount).lte('loan_term_min', loanTerm)
\* .gte('loan_term_max', loanTerm)
Matches(offer, loanAmount, loanTerm) ==
    /\ offer.is_active
    /\ offer.loan_amount_min <= loanAmount
    /\ offer.loan_amount_max >= loanAmount
    /\ offer.loan_term_min <= loanTerm
    /\ offer.loan_term_max >= loanTerm

\* the RankedBankOffer made of an offer; Math.round(effectiveAnnualRate * 100) / 100
Ranked(offer) ==
    [ bank_name |-> offer.bank_name,
      interest_rate |-> offer.interest_rate,
      processing_fee |-> offer.processing_fee,
      has_account_requirement |-> TRUE,
      effective_annual_rate |->
          RoundDiv(calculateEffectiveAnnualRate(offer.interest_rate,
                                                offer.processing_fee), 10) ]

\* a variant that compares the interest rates
OfferBeforeByInterest(a, b) == a.interest_rate < b.interest_rate

\* the comparator a.effective_annual_rate - b.effective_annual_rate is negative
OfferBefore(a, b) == a.effective_annual_rate < b.effective_annual_rate

\* rankedOffers.sort(...): stable
SortOffers(rankedOffers) ==
    LET Precedes(i, j) == \/ OfferBefore(rankedOffers[i], rankedOffers[j])
                          \/ /\ ~OfferBefore(rankedOffers[j], rankedOffers[i])
                             /\ i < j
        Rank(i) == 1 + Cardinality({ j \in DOMAIN rankedOffers :
                                        j # i /\ Precedes(j, i) })
    IN  [ r \in DOMAIN rankedOffers |->
            rankedOffers[CHOOSE i \in DOMAIN rankedOffers : Rank(i) = r] ]

\* fetchBankOffers(loanAmount, loanTerm) on the table bank_offers; `error` is
\* whether the query reported one
fetchBankOffers(bank_offers, loanAmount, loanTerm, error) ==
    LET offers == SelectSeq(bank_offers,
                            LAMBDA offer : Matches(offer, loanAmount, loanTerm))
    IN  IF error THEN <<>>
        ELSE IF Len(offers) = 0 THEN <<>>
        ELSE SortOffers([ i \in DOMAIN offers |-> Ranked(offers[i]) ])

MaxOffers == 3

OffersInit ==
    /\ ClassIdle /\ ModuleIdle /\ DbIdle /\ AppIdle /\ CallIdle
    /\ evalIn \in [ bank_offers : SeqsUpTo(BankOffers, MaxOffers),
                    loanAmount : { 50000, 2000000, 4000000 },
                    loanTerm : { 120, 300 },
                    error : BOOLEAN ]
    /\ evalOut = NoRet
    /\ locals = <<>> /\ at = <<>>

FetchBankOffers ==
    /\ evalOut = NoRet
    /\ evalOut' = Returned(fetchBankOffers(evalIn.bank_offers, evalIn.loanAmount,
                                           evalIn.loanTerm, evalIn.error))
    /\ UNCHANGED <<app, classVars, moduleVars, dbVars, callVars, evalIn, locals, at>>

SpecOffers == OffersInit /\ [][FetchBankOffers]_vars

(***************************************************************************)
(* Properties of fetchBankOffers(), under SpecOffers                       *)
(***************************************************************************)
Matched == { i \in DOMAIN evalIn.bank_offers :
                 Matches(evalIn.bank_offers[i], evalIn.loanAmount, evalIn.loanTerm) }

\* interest_rate + processing_fee * 0.1 rounded to 2 decimals
RoundedRate(offer) == (offer.interest_rate * 10 + offer.processing_fee + 5) \div 10

\* C12: the offers returned are in non-decreasing order of
\* effective_annual_rate, which is interest_rate + processing_fee * 0.1 rounded
\* to 2 decimals, and the first has the least of the matched offers' rates
C12_OffersOrderedByEffectiveRate ==
    evalOut.kind = "return" =>
        /\ \A i \in DOMAIN evalOut.value :
               evalOut.value[i].effective_annual_rate = RoundedRate(evalOut.value[i])
        /\ \A i, j \in DOMAIN evalOut.value :
               i < j => evalOut.value[i].effective_annual_rate
                            <= evalOut.value[j].effective_annual_rate
        /\ evalOut.value # <<>> =>
               \A i \in Matched :
                   evalOut.value[1].effective_annual_rate
                       <= RoundedRate(evalIn.bank_offers[i])

C12_Witness ==
    /\ evalOut.kind = "return"
    /\ Len(evalOut.value) = MaxOffers
    /\ evalOut.value[1].interest_rate > evalOut.value[2].interest_rate
    /\ evalOut.value[1].effective_annual_rate < evalOut.value[2].effective_annual_rate
    /\ evalIn.bank_offers[1].bank_name # evalOut.value[1].bank_name

(***************************************************************************)
(* SpecFeatures: engineerFeatures() on its own, over profiles at the edges *)
(* of the valid ranges and with keys the encoders do not hold.  evalIn is  *)
(* the object passed as data, evalOut the features returned.               *)
(***************************************************************************)
FeatureProfiles ==
    [ income : { 0, 150000, 1200000 }, credit_history : { 0, 50, 100 },
      loan_amount : { 100000, 1000000 }, loan_term : { 12, 360 },
      employment_type : EmploymentTypes \cup { "contractor" },
      dependents : { 0, 4 },
      marital_status : MaritalStatuses \cup { "separated" } ]

FeaturesInit ==
    /\ ClassIdle /\ ModuleIdle /\ DbIdle /\ AppIdle /\ CallIdle
    /\ evalIn \in FeatureProfiles
    /\ evalOut = NoRet
    /\ locals = <<>> /\ at = <<>>

\* engineerFeatures(data): no statement of it assigns to data
EngineerFeatures ==
    /\ evalOut = NoRet
    /\ evalOut' = Returned(engineerFeatures(evalIn))
    /\ evalIn' = evalIn
    /\ UNCHANGED <<app, classVars, moduleVars, dbVars, callVars, locals, at>>

SpecFeatures == FeaturesInit /\ [][EngineerFeatures]_vars

(***************************************************************************)
(* Properties of engineerFeatures(), under SpecFeatures                    *)
(***************************************************************************)
\* q is numerator / denominator cut to the unit of q
IsQuotient(q, numerator, denominator) ==
    /\ denominator # 0
    /\ q * denominator <= numerator
    /\ numerator < (q + 1) * denominator

FeaturesAsStated ==
    LET data == evalIn
        features == evalOut.value
        perRatio == (HS - data.credit_history) * (data.dependents + 1)
    IN  /\ DOMAIN features =
               { "income", "credit_history", "loan_amount", "loan_term",
                 "dependents", "employment_encoded", "marital_encoded",
                 "loan_to_income_ratio", "monthly_burden",
                 "income_per_dependent", "credit_x_income", "risk_score" }
        /\ \A name \in { "income", "credit_history", "loan_amount", "loan_term",
                         "dependents" } : features[name] = data[name]
        /\ IsQuotient(features.loan_to_income_ratio,
                      data.loan_amount * HS, data.income + 1)
        /\ IsQuotient(features.monthly_burden, data.loan_amount, data.loan_term)
        /\ IsQuotient(features.income_per_dependent,
                      data.income, data.dependents + 1)
        /\ IsQuotient(features.credit_x_income,
                      data.credit_history * data.income, HS)
        /\ MulDiv(features.loan_to_income_ratio, perRatio, HS)
               <= features.risk_score
        /\ features.risk_score
               <= MulDiv(features.loan_to_income_ratio + 1, perRatio, HS)

\* C13: engineerFeatures returns exactly the 12 named features, the derived
\* ones by the stated formulas with non-zero denominators, also for income = 0
\* and dependents = 0, and the profile passed is the same after the call
C13_FeaturesAsStatedProfileKept ==
    [][ evalOut' # evalOut =>
            /\ evalOut'.kind = "return"
            /\ FeaturesAsStated'
            /\ evalIn' = evalIn ]_vars

C13_Witness ==
    /\ evalOut.kind = "return"
    /\ evalIn.income = 0
    /\ evalIn.dependents = 0
    /\ evalOut.value.loan_to_income_ratio = evalIn.loan_amount * HS
    /\ evalOut.value.income_per_dependent = 0
    /\ evalOut.value.risk_score > 0

\* 0.8 / 0.5 / 0.6 and 0.7 / 0.5 / 0.4 / 0.45 in 1/HS, 0.5 for any other key
StatedEmploymentScore(key) ==
    CASE key = "salaried" -> 80
      [] key = "self_employed" -> 50
      [] key = "business" -> 60
      [] OTHER -> 50

StatedMaritalScore(key) ==
    CASE key = "married" -> 70
      [] key = "single" -> 50
      [] key = "divorced" -> 40
      [] key = "widowed" -> 45
      [] OTHER -> 50

\* C14: employment_type salaried / self_employed / business is encoded as
\* 0.8 / 0.5 / 0.6, marital_status married / single / divorced / widowed as
\* 0.7 / 0.5 / 0.4 / 0.45, and a key of neither table as 0.5, the call returning
C14_EncodingsWithFallback ==
    evalOut # NoRet =>
        /\ evalOut.kind = "return"
        /\ evalOut.value.employment_encoded
               = StatedEmploymentScore(evalIn.employment_type)
        /\ evalOut.value.marital_encoded
               = StatedMaritalScore(evalIn.marital_status)

C14_Witness ==
    /\ evalOut.kind = "return"
    /\ evalIn.employment_type \notin { "salaried", "self_employed", "business" }
    /\ evalIn.marital_status \notin { "married", "single", "divorced", "widowed" }
    /\ evalOut.value.employment_encoded = 50
    /\ evalOut.value.marital_encoded = 50

(***************************************************************************)
(* SpecGenerate: generateSyntheticData(samples) on its own, one iteration  *)
(* of its loop per step.  A value of Math.random() is in 1/PS, from 0 to   *)
(* PS - 1; `draw` holds the eight values one iteration draws.  Incomes and *)
(* amounts are cut to whole INR, credit_history to 1/HS, and the           *)
(* probabilities of the labelling heuristic are in 1/PS.                   *)
(***************************************************************************)
employmentTypes == << "salaried", "self_employed", "business" >>
maritalStatuses == << "single", "married", "divorced", "widowed" >>

\* 200000 + Math.random() * 1800000
DrawIncome(r) == 200000 + (r * 18) \div 10

\* Math.random()
DrawCreditHistory(r) == r \div (PS \div HS)

\* 100000 + Math.random() * 4900000
DrawLoanAmount(r) == 100000 + (r * 49) \div 10

\* a variant that multiplies by 349
DrawLoanTermInclusive(r) == 12 + (r * 349) \div PS

\* 12 + Math.floor(Math.random() * 348)
DrawLoanTerm(r) == 12 + (r * 348) \div PS

\* array[Math.floor(Math.random() * array.length)]
DrawMember(array, r) == array[(r * Len(array)) \div PS + 1]

\* Math.floor(Math.random() * 5)
DrawDependents(r) == (r * 5) \div PS

Min(a, b) == IF a < b THEN a ELSE b
Max(a, b) == IF a > b THEN a ELSE b

\* approval_prob > 0.55 ? 1 : 0 of the example drawn; lti_ratio in 1/HS, risk in
\* 1/(10 * HS * HS)
Approved(income, credit_history, loan_amount, employment_type, dependents, noise) ==
    LET lti_ratio == (loan_amount * HS) \div income
        employment_score == Encode("employment_type", employment_type)
        risk == lti_ratio * (HS - credit_history) * (dependents + 10)
        base_approval_prob ==
            credit_history * 4000
            + income \div 8
            + employment_score * 1500
            + (5 * HS - Min(lti_ratio, 5 * HS)) * 400
        approval_prob ==
            Max(0, Min(PS, base_approval_prob - risk * 3
                               + (noise \div 10 - PS \div 20)))
    IN  IF approval_prob > 550000 THEN 1 ELSE 0

\* the body of the loop: the example pushed when Math.random() gave `draw`
GeneratedExample(draw) ==
    LET income == DrawIncome(draw.income)
        credit_history == DrawCreditHistory(draw.credit_history)
        loan_amount == DrawLoanAmount(draw.loan_amount)
        loan_term == DrawLoanTerm(draw.loan_term)
        employment_type == DrawMember(employmentTypes, draw.employment_type)
        dependents == DrawDependents(draw.dependents)
        marital_status == DrawMember(maritalStatuses, draw.marital_status)
    IN  [ income |-> income, credit_history |-> credit_history,
          loan_amount |-> loan_amount, loan_term |-> loan_term,
          employment_type |-> employment_type, dependents |-> dependents,
          marital_status |-> marital_status,
          approved |-> Approved(income, credit_history, loan_amount,
                                employment_type, dependents, draw.noise) ]

Draw(income, credit_history, loan_amount, loan_term, employment_type, dependents, marital_status, noise) ==
    [ income |-> income, credit_history |-> credit_history,
      loan_amount |-> loan_amount, loan_term |-> loan_term,
      employment_type |-> employment_type, dependents |-> dependents,
      marital_status |-> marital_status, noise |-> noise ]

\* a high income and credit history with a small loan, and the reverse
Sound   == Draw(900000, 950000, 50000, 300000, 100000, 100000, 300000, 500000)
Strained == Draw(30000, 100000, 800000, 830000, 400000, 900000, 100000, 500000)

\* also: every call of Math.random() gave 0, and every call its largest value
DrawVectors ==
    { Draw(0, 0, 0, 0, 0, 0, 0, 0),
      Draw(PS - 1, PS - 1, PS - 1, PS - 1, PS - 1, PS - 1, PS - 1, PS - 1),
      Sound, Strained }

MaxSamples == 3

GenerateInit ==
    /\ ClassIdle /\ ModuleIdle /\ DbIdle /\ AppIdle /\ CallIdle
    /\ evalIn \in 0..MaxSamples
    /\ evalOut = NoRet
    /\ locals = [ i |-> 0, data |-> <<>> ]
    /\ at = <<>>

\* one iteration of for (let i = 0; i < samples; i++)
GenerateExample ==
    /\ evalOut = NoRet
    /\ locals.i < evalIn
    /\ \E draw \in DrawVectors :
           locals' = [ i |-> locals.i + 1,
                       data |-> Append(locals.data, GeneratedExample(draw)) ]
    /\ UNCHANGED <<app, classVars, moduleVars, dbVars, callVars, evalIn, evalOut, at>>

\* return data
GenerateReturn ==
    /\ evalOut = NoRet
    /\ ~(locals.i < evalIn)
    /\ evalOut' = Returned(locals.data)
    /\ UNCHANGED <<app, classVars, moduleVars, dbVars, callVars, evalIn, locals, at>>

GenerateNext == GenerateExample \/ GenerateReturn

SpecGenerate == GenerateInit /\ [][GenerateNext]_vars

(***************************************************************************)
(* Properties of generateSyntheticData(), under SpecGenerate               *)
(***************************************************************************)
\* C20: generateSyntheticData(n) returns exactly n examples, each with
\* 200000 <= income <= 2000000, 0 <= credit_history <= 1,
\* 100000 <= loan_amount <= 5000000, an integer loan_term with
\* 12 <= loan_term < 360, an integer dependents with 0 <= dependents < 5,
\* employment_type and marital_status of the enumerated sets, approved 0 or 1
C20_GeneratedExamplesInRange ==
    evalOut # NoRet =>
        /\ evalOut.kind = "return"
        /\ Len(evalOut.value) = evalIn
        /\ \A k \in DOMAIN evalOut.value :
               LET example == evalOut.value[k]
               IN  /\ 200000 <= example.income /\ example.income <= 2000000
                   /\ 0 <= example.credit_history
                   /\ example.credit_history <= 1 * HS
                   /\ 100000 <= example.loan_amount
                   /\ example.loan_amount <= 5000000
                   /\ example.loan_term \in Int
                   /\ 12 <= example.loan_term /\ example.loan_term < 360
                   /\ example.dependents \in Int
                   /\ 0 <= example.dependents /\ example.dependents < 5
                   /\ example.employment_type
                          \in { "salaried", "self_employed", "business" }
                   /\ example.marital_status
                          \in { "single", "married", "divorced", "widowed" }
                   /\ example.approved \in { 0, 1 }

C20_Witness ==
    /\ evalOut.kind = "return"
    /\ Len(evalOut.value) = MaxSamples
    /\ evalOut.value[1].loan_term = 359 /\ evalOut.value[1].dependents = 4
    /\ evalOut.value[1].approved = 1
    /\ evalOut.value[2].loan_term = 12 /\ evalOut.value[2].income = 200000
    /\ evalOut.value[2].approved = 0

(***************************************************************************)
(* SpecTrain: one train() call on a new instance, step by step, over       *)
(* TrainSamples examples in place of the 5000.  evalIn is what             *)
(* Math.random() gave: the examples generated and the initial weights.     *)
(* While train() runs, m.weights is held in 1/TWS and a prediction in      *)
(* 1/(NS * TWS).  A standard deviation is computed on deviations measured  *)
(* in steps of Step(deviations), which keeps their squares small.          *)
(***************************************************************************)
TWS == 10000
StdScale == 1000

\* Math.floor(totalSamples * 0.8)
SplitIndex(totalSamples) == (totalSamples * 8) \div 10

\* a variant that trains on every example generated
TrainingDataWhole(syntheticData, splitIndex) == syntheticData

\* syntheticData.slice(0, splitIndex)
TrainingData(syntheticData, splitIndex) == SubSeq(syntheticData, 1, splitIndex)

\* syntheticData.slice(splitIndex)
ValidationData(syntheticData, splitIndex) ==
    SubSeq(syntheticData, splitIndex + 1, Len(syntheticData))

\* features.map(f => f[name])
Values(features, name) == [ i \in DOMAIN features |-> features[i][name] ]

\* values.reduce((a, b) => a + b, 0) / values.length, to the nearest unit
PopulationMean(values) == RoundDiv(SumTo(values, Len(values)), Len(values))

\* the step deviations are measured in: 1 up to StdScale, more for larger ones
Step(deviations) ==
    LET largest == CHOOSE d \in { Abs(deviations[i]) : i \in DOMAIN deviations } :
                       \A i \in DOMAIN deviations : Abs(deviations[i]) <= d
    IN  largest \div StdScale + 1

\* Math.sqrt(x), cut to an integer
Sqrt(x) == CHOOSE r \in 0..(StdScale + 1) : r * r <= x /\ x < (r + 1) * (r + 1)

\* Math.sqrt(variance) of values.reduce((a, b) => a + Math.pow(b - mean, 2), 0)
\* / values.length; the variance is in Step(deviations) squared
PopulationStd(values) ==
    LET mean == PopulationMean(values)
        deviations == [ i \in DOMAIN values |-> values[i] - mean ]
        step == Step(deviations)
        squares == [ i \in DOMAIN deviations |->
                       (Abs(deviations[i]) \div step) * (Abs(deviations[i]) \div step) ]
        variance == SumTo(squares, Len(squares)) \div Len(squares)
    IN  Sqrt(variance) * step

\* a variant that stores the deviation as computed
StdAsComputed(std, name) == std

\* std || 1
StdOrOne(std, name) == IF std = 0 THEN Unit(name) ELSE std

\* the scaler after the fit on `features`
FitScaler(features) ==
    [ mean |-> [ name \in FeatureSet |-> PopulationMean(Values(features, name)) ],
      std  |-> [ name \in FeatureSet |->
                   StdOrOne(PopulationStd(Values(features, name)), name) ] ]

\* normalizedFeatures: features.map(f => ...) with this.scaler of `model`
NormalizedFeatures(model, features) ==
    [ i \in DOMAIN features |->
        [ name \in FeatureSet |-> Normalize(model, features[i], name) ] ]

\* learningRate = 0.01 in 1/TWS, and epochs
learningRate == 100
epochs == 100

\* (Math.random() - 0.5) * 0.1, in 1/TWS
DrawWeight(r) == (r - PS \div 2) \div (10 * (PS \div TWS))

\* prediction: the sum of features[name] * (this.weights.get(name) || 0), in
\* 1/(NS * TWS)
Prediction(weights, features) ==
    SumTo([ k \in DOMAIN FeatureNames |->
              features[FeatureNames[k]] * MapGet(weights, FeatureNames[k], 0) ],
          Len(FeatureNames))

\* prob: 1 / (1 + Math.exp(-prediction)), in 1/PS
Prob(weights, features) == Sigmoid(Prediction(weights, features) \div (TWS \div WS))

\* error = prob - actual, in 1/PS
Error(weights, features, actual) == Prob(weights, features) - actual * PS

\* gradients.get(name) after the loop over the examples, every error taken at
\* `weights`; in 1/(PS * NS)
Gradient(weights, normalizedFeatures, trainingData, name) ==
    LET grad == [ i \in DOMAIN normalizedFeatures |->
                    Error(weights, normalizedFeatures[i], trainingData[i].approved)
                        * normalizedFeatures[i][name] ]
    IN  SumTo(grad, Len(grad))

\* weight - learningRate * grad for grad = total / length
Updated(weight, total, length) ==
    weight - RoundDiv(total, length * ((PS * NS) \div learningRate))

\* a variant that updates the weights after every example
RECURSIVE EpochOnline(_, _, _)
EpochOnline(weights, normalizedFeatures, trainingData) ==
    IF normalizedFeatures = <<>> THEN weights
    ELSE LET error == Error(weights, normalizedFeatures[1], trainingData[1].approved)
             next == [ name \in FeatureSet |->
                         Updated(MapGet(weights, name, 0),
                                 error * normalizedFeatures[1][name], 1) ]
         IN  EpochOnline(next, Tail(normalizedFeatures), Tail(trainingData))

\* one iteration of for (let epoch = 0; epoch < epochs; epoch++): this.weights
\* after it
Epoch(weights, normalizedFeatures, trainingData) ==
    [ name \in FeatureSet |->
        Updated(MapGet(weights, name, 0),
                Gradient(weights, normalizedFeatures, trainingData, name),
                Len(normalizedFeatures)) ]

\* validationPredictions
ValidationPredictions(model, validationData) ==
    Array([ i \in DOMAIN validationData |->
              Prob(model.weights,
                   [ name \in FeatureSet |->
                       Normalize(model, engineerFeatures(validationData[i]), name) ]) ],
          Len(validationData))

TrainSamples == 5

Constant(array) == \A i, j \in DOMAIN array : array[i] = array[j]

TrainPool == { GeneratedExample(Sound), GeneratedExample(Strained) }

\* what generateSyntheticData returned: the examples all alike, or both kinds
\* of example among those trained on
SyntheticDatasets ==
    { data \in [1..TrainSamples -> TrainPool] :
        \/ Constant(data)
        \/ ~Constant(TrainingData(data, SplitIndex(TrainSamples))) }

InitialWeights == { [ name \in FeatureSet |-> DrawWeight(r) ] : r \in { 0, PS - 1 } }

TrainInit ==
    /\ ClassIdle /\ ModuleIdle /\ DbIdle /\ AppIdle /\ CallIdle
    /\ evalIn \in [ syntheticData : SyntheticDatasets, weights : InitialWeights ]
    /\ evalOut = NoRet
    /\ locals = <<>>
    /\ at = [ pc |-> "split", epoch |-> 0 ]

\* the call moves on from one position to the next
Goto(from, to) == at.pc = from /\ at' = [ at EXCEPT !.pc = to ]

\* epoch < epochs holds: the body of the loop runs, then epoch++
EnterEpoch == at.pc = "epoch" /\ at.epoch < epochs
              /\ at' = [ at EXCEPT !.epoch = @ + 1 ]

\* epoch < epochs fails: the loop is left
LeaveEpochs == at.pc = "epoch" /\ ~(at.epoch < epochs)
               /\ at' = [ at EXCEPT !.pc = "done" ]

\* splitIndex, trainingData, validationData
TrainSplit ==
    /\ Goto("split", "fit")
    /\ LET splitIndex == SplitIndex(Len(evalIn.syntheticData))
       IN  locals' = [ trainingData |-> TrainingData(evalIn.syntheticData, splitIndex),
                       validationData |-> ValidationData(evalIn.syntheticData,
                                                         splitIndex) ]
    /\ UNCHANGED <<app, classVars, moduleVars, dbVars, callVars, evalIn, evalOut>>

\* trainEnsemble: features, the scaler fit, normalizedFeatures
TrainFit ==
    /\ Goto("fit", "weights")
    /\ LET features == [ i \in DOMAIN locals.trainingData |->
                           engineerFeatures(locals.trainingData[i]) ]
           fitted == [ m EXCEPT !.scaler = FitScaler(features) ]
       IN  /\ m' = fitted
           /\ locals' = [ trainingData |-> locals.trainingData,
                          validationData |-> locals.validationData,
                          normalizedFeatures |-> NormalizedFeatures(fitted, features) ]
    /\ UNCHANGED <<app, remembered, moduleVars, dbVars, callVars, evalIn, evalOut>>

\* trainEnsemble: the random initial weights, epoch = 0
TrainInitWeights ==
    /\ Goto("weights", "epoch")
    /\ m' = [ m EXCEPT !.weights = evalIn.weights ]
    /\ UNCHANGED <<app, remembered, moduleVars, dbVars, callVars, evalIn, evalOut, locals>>

\* trainEnsemble: one epoch
TrainEpoch ==
    /\ EnterEpoch
    /\ m' = [ m EXCEPT !.weights = Epoch(m.weights, locals.normalizedFeatures,
                                         locals.trainingData) ]
    /\ UNCHANGED <<app, remembered, moduleVars, dbVars, callVars, evalIn, evalOut, locals>>

\* the loop is left; validationPredictions, actuals, this.metrics, return
TrainValidate ==
    /\ LeaveEpochs
    /\ LET actuals == Array([ i \in DOMAIN locals.validationData |->
                                locals.validationData[i].approved ],
                            Len(locals.validationData))
           metrics == calculateMetrics(ValidationPredictions(m, locals.validationData),
                                       actuals)
       IN  /\ m' = [ m EXCEPT !.metrics = metrics ]
           /\ evalOut' = Returned(metrics)
    /\ UNCHANGED <<app, remembered, moduleVars, dbVars, callVars, evalIn, locals>>

TrainNext ==
    TrainSplit \/ TrainFit \/ TrainInitWeights \/ TrainEpoch \/ TrainValidate

\* the move every step of train() makes in its code
TrainAdvance ==
    \/ Goto("split", "fit") \/ Goto("fit", "weights") \/ Goto("weights", "epoch")
    \/ EnterEpoch \/ LeaveEpochs

\* train() is one synchronous call: short of its return it moves on
SpecTrain == TrainInit /\ [][TrainNext]_vars /\ WF_at(TrainAdvance)

(***************************************************************************)
(* Properties of train(), under SpecTrain                                  *)
(***************************************************************************)
\* the features of the first k examples generated
FirstFeatures(k) == [ i \in 1..k |-> engineerFeatures(evalIn.syntheticData[i]) ]

C18_ScalerFitPopulationStatistics ==
    at.pc \notin { "split", "fit" } =>
        \A name \in FeatureSet :
            LET n == Len(locals.trainingData)
                values == Values(FirstFeatures(n), name)
                mean == m.scaler.mean[name]
                std == m.scaler.std[name]
                deviations == [ i \in 1..n |-> values[i] - mean ]
                step == Step(deviations)
                squares == [ i \in 1..n |-> (Abs(deviations[i]) \div step)
                                                * (Abs(deviations[i]) \div step) ]
            IN  /\ 2 * Abs(n * mean - SumTo(values, n)) <= n
                /\ Constant(values) => std = Unit(name)
                /\ ~Constant(values) =>
                       /\ std % step = 0
                       /\ n * (std \div step) * (std \div step) <= SumTo(squares, n)
                       /\ SumTo(squares, n)
                              < n * (std \div step + 1) * (std \div step + 1)
                /\ std # 0
                /\ MapGet(m.scaler.std, name, Unit(name)) # 0

C18_Witness ==
    /\ at.pc = "done"
    /\ Constant(locals.trainingData)
    /\ m.scaler.std.income = 1
    /\ m.scaler.std.credit_history = HS
    /\ m.scaler.mean.income = locals.trainingData[1].income
    /\ \A i \in DOMAIN locals.normalizedFeatures :
           locals.normalizedFeatures[i].income = 0

ExplainInit ==
    /\ ClassIdle /\ ModuleIdle /\ DbIdle /\ AppIdle /\ CallIdle
    /\ evalIn \in
         { << status, topFeatures,
              Profile(income, credit_history, loan_amount, 120, employment_type,
                      dependents, "single") >> :
             status \in { "Approved", "Rejected" },
             topFeatures \in { <<>>, <<"income", "credit_history", "risk_score">> },
             income \in { 0, 500000, 500001 },
             credit_history \in { 49, 50, 69, 70 },
             loan_amount \in { 1000000, 1500003, 2500005 },
             employment_type \in { "salaried", "self_employed" },
             dependents \in { 1, 3, 4 } }
    /\ evalOut = NoRet
    /\ locals = <<>> /\ at = <<>>

GenerateExplanation ==
    /\ evalOut = NoRet
    /\ evalOut' = Returned(generateExplanation(evalIn[1], evalIn[2],
                                               engineerFeatures(evalIn[3]), evalIn[3]))
    /\ UNCHANGED <<app, classVars, moduleVars, dbVars, callVars, evalIn, locals, at>>

SpecExplain == ExplainInit /\ [][GenerateExplanation]_vars

(***************************************************************************)
(* Properties of generateExplanation(), under SpecExplain                  *)
(***************************************************************************)
\* the reasons in priority order, those of Approved before those of Rejected
ReasonPriority ==
    << "strong credit history", "healthy loan-to-income ratio",
       "stable employment", "good income level",
       "weak credit history", "high loan-to-income ratio",
       "elevated risk score", "higher number of dependents" >>

\* whether the rule of a reason fires for the decided status, as stated
RuleFires(reason, status, data) ==
    LET approved == status = "Approved"
        rejected == status = "Rejected"
    IN  CASE reason = "strong credit history" ->
                 approved /\ data.credit_history >= 70
          [] reason = "healthy loan-to-income ratio" ->
                 approved /\ data.loan_amount < 3 * (data.income + 1)
          [] reason = "stable employment" ->
                 approved /\ data.employment_type = "salaried"
          [] reason = "good income level" ->
                 approved /\ data.income > 500000
          [] reason = "weak credit history" ->
                 rejected /\ data.credit_history < 50
          [] reason = "high loan-to-income ratio" ->
                 rejected /\ data.loan_amount > 5 * (data.income + 1)
          [] reason = "elevated risk score" ->
                 rejected /\ engineerFeatures(data).risk_score > 1000000 * HS
          [] reason = "higher number of dependents" ->
                 rejected /\ data.dependents > 3

\* the reasons a text lists: the pieces between " based on " and ".", the
\* separators left out
ListedReasons(text) ==
    [ i \in 1..((Len(text) - 3) \div 2) |-> text[2 * i + 2] ]

\* the form 'Application {approved|rejected} based on r1, r2, ....'
HasExplanationForm(text, status) ==
    /\ Len(text) >= 4
    /\ Len(text) = 4 \/ Len(text) % 2 = 1
    /\ text[1] = "Application "
    /\ text[2] = (IF status = "Approved" THEN "approved" ELSE "rejected")
    /\ text[3] = " based on "
    /\ text[Len(text)] = "."
    /\ \A i \in 1..((Len(text) - 5) \div 2) : text[2 * i + 3] = ", "

\* C21: the explanation lists exactly the reasons whose rule fires for the
\* decided status, in the fixed priority order, none of the other status, in
\* the form 'Application {approved|rejected} based on r1, r2, ....'
C21_ExplanationListsFiringRules ==
    evalOut.kind = "return" =>
        LET status == evalIn[1]
            data == evalIn[3]
            Fires(reason) == RuleFires(reason, status, data)
        IN  /\ HasExplanationForm(evalOut.value, status)
            /\ ListedReasons(evalOut.value) = SelectSeq(ReasonPriority, Fires)

\* all four reasons of a rejection, on a profile whose income is 0
C21_Witness ==
    /\ evalOut.kind = "return"
    /\ evalIn[1] = "Rejected" /\ evalIn[3].income = 0
    /\ ListedReasons(evalOut.value) =
           << "weak credit history", "high loan-to-income ratio",
              "elevated risk score", "higher number of dependents" >>

(***************************************************************************)
(* Properties of the explanation predict() returns, under SpecClass        *)
(***************************************************************************)
NoRuleFires(status, data) ==
    \A i \in DOMAIN ReasonPriority : ~RuleFires(ReasonPriority[i], status, data)

KeptAt(name) ==
    IF \E k \in DOMAIN Attributions : Attributions[k].name = name
    THEN CHOOSE k \in DOMAIN Attributions : Attributions[k].name = name
    ELSE 0

\* features i and j of the fixed order, i the earlier, have equal contribution
TiedAt(i, j) ==
    /\ i < j
    /\ Contribution(m, engineerFeatures(arg), FeatureNames[i])
           = Contribution(m, engineerFeatures(arg), FeatureNames[j])

\* C23: of two features with equal contribution the one that comes first in
\* the fixed feature-name order is ranked first, and at the cut-off of the top
\* 5 it is the one kept
C23_TiesKeepFeatureOrder ==
    op = "predict" =>
        \A i, j \in DOMAIN FeatureNames :
            (TiedAt(i, j) /\ KeptAt(FeatureNames[j]) # 0) =>
                /\ KeptAt(FeatureNames[i]) # 0
                /\ KeptAt(FeatureNames[i]) < KeptAt(FeatureNames[j])

\* a tie above 0 between two kept features, and a tie across the cut-off
C23_Witness ==
    /\ op = "predict" /\ IsTrained(m)
    /\ \E i, j \in DOMAIN FeatureNames :
           /\ TiedAt(i, j)
           /\ Contribution(m, engineerFeatures(arg), FeatureNames[i]) > 0
           /\ KeptAt(FeatureNames[i]) # 0 /\ KeptAt(FeatureNames[j]) # 0
    /\ \E i, j \in DOMAIN FeatureNames :
           /\ TiedAt(i, j)
           /\ KeptAt(FeatureNames[i]) = TopK /\ KeptAt(FeatureNames[j]) = 0

\* C24: before the truncation to the top 5 the 12 contribution percentages of
\* a predict() call on a trained model are numbers that sum to 100, to within
\* the last digit each of them is held in
C24_PercentagesSumTo100 ==
    (op = "predict" /\ IsTrained(m)) =>
        LET entries == AttributionEntries(m, engineerFeatures(arg))
            total == SumTo([ i \in DOMAIN entries |-> entries[i].value.v ],
                           Len(entries))
        IN  /\ Len(entries) = Len(FeatureNames)
            /\ \A i \in DOMAIN entries : ~entries[i].value.nan
            /\ total <= 100 * PctS
            /\ total >= 100 * PctS - Len(entries)

\* C25: prediction_confidence is never below 50: it is the rounded percentage of
\* the probability of the decided class, which is at least 0.5
C25_ConfidenceAtLeast50 ==
    op = "predict" =>
        /\ ret.kind = "return"
        /\ ret.value.prediction_confidence >= 50
        /\ ret.value.eligibility_status = "Approved" =>
               2 * ret.value.probability_approved >= PS
        /\ ret.value.eligibility_status = "Rejected" =>
               2 * (PS - ret.value.probability_approved) >= PS

\* the least confidence, of a trained model that is undecided, and no less
C25_Witness ==
    /\ op = "predict" /\ IsTrained(m)
    /\ ret.value.prediction_confidence = 50
    /\ remembered # <<>> /\ remembered[1].arg # arg
    /\ remembered[1].ret.eligibility_status = "Rejected"
    /\ remembered[1].ret.prediction_confidence \in 51..99

(***************************************************************************)
(* Properties of the writes of submitApplication(), under Spec             *)
(***************************************************************************)
\* the call in flight ended in this step by throwing from position pc
ThrowsFrom(pc) ==
    /\ sub.pc = pc /\ sub'.pc = "idle"
    /\ ret'.kind = "throw"

\* C26: submitApplication writes in the order applicants, predictions,
\* audit_logs; when the applicants insert fails it throws with the model not
\* consulted and no prediction or audit row written; when the predictions
\* insert fails it throws with no audit row written and the applicant row kept
C26_WritesInOrderThrowsEarly ==
    /\ [](/\ Len(db_audit_logs) <= Len(db_predictions)
          /\ Len(db_predictions) <= Len(db_applicants)
          /\ \A i \in DOMAIN db_predictions :
                 db_predictions[i].data.applicant_id \in DOMAIN db_applicants
          /\ \A i \in DOMAIN db_audit_logs :
                 db_audit_logs[i].prediction_id \in DOMAIN db_predictions
          /\ sub.pc = "prediction" =>
                 /\ db_applicants[Len(db_applicants)] = sub.applicant
                 /\ Len(db_predictions) < Len(db_applicants)
          /\ sub.pc = "audit" =>
                 /\ db_predictions[Len(db_predictions)] = sub.prediction
                 /\ Len(db_audit_logs) < Len(db_predictions))
    /\ [][ /\ db_applicants' # db_applicants =>
                 /\ sub.pc = "applicant"
                 /\ db_predictions' = db_predictions
                 /\ db_audit_logs' = db_audit_logs
           /\ db_predictions' # db_predictions =>
                 /\ sub.pc = "prediction"
                 /\ db_applicants' = db_applicants
                 /\ db_audit_logs' = db_audit_logs
           /\ db_audit_logs' # db_audit_logs =>
                 /\ sub.pc = "audit"
                 /\ db_applicants' = db_applicants
                 /\ db_predictions' = db_predictions
           /\ (sub.pc = "applicant" /\ sub'.pc = "idle") =>
                 /\ ThrowsFrom("applicant")
                 /\ accessorLog' = accessorLog /\ trainCalls' = trainCalls
                 /\ globalModel' = globalModel /\ heap' = heap
                 /\ db_applicants' = db_applicants
                 /\ db_predictions' = db_predictions
                 /\ db_audit_logs' = db_audit_logs
           /\ (sub.pc = "prediction" /\ sub'.pc = "idle") =>
                 /\ ThrowsFrom("prediction")
                 /\ db_audit_logs' = db_audit_logs
                 /\ db_predictions' = db_predictions
                 /\ db_applicants' = db_applicants
                 /\ \E i \in DOMAIN db_applicants' :
                        db_applicants'[i] = sub.applicant
           /\ (sub.pc = "audit" /\ sub'.pc = "idle") => ret'.kind = "return"
         ]_vars

\* the predictions insert failed: an applicant row, and no other
C26_Witness ==
    /\ sub.pc = "idle" /\ ret = Thrown("Failed to insert prediction")
    /\ Len(db_applicants) = 1 /\ db_applicants[1].data = arg
    /\ db_predictions = <<>> /\ db_audit_logs = <<>>
    /\ accessorLog # <<>>

(***************************************************************************)
(* Properties of the instances the accessor returns, under Spec            *)
(***************************************************************************)
\* the weights and the scaling parameters of an instance are those one and the
\* same train() run set
FromOneRun(model) ==
    \E run \in Runs :
        /\ model.weights = run.outcome.weights
        /\ model.scaler = [ mean |-> run.outcome.mean, std |-> run.outcome.std ]

\* C27: an instance getOrCreateModel() returned has completed train(): weights
\* and scaling parameters hold exactly the 12 feature names and come from the
\* same training run, also when trainNewModel() ran before or between
C27_ReturnedModelFromOneRun ==
    \A k \in DOMAIN accessorLog :
        LET model == heap[accessorLog[k].returned]
        IN  /\ DOMAIN model.weights = FeatureSet
            /\ DOMAIN model.scaler.mean = FeatureSet
            /\ DOMAIN model.scaler.std = FeatureSet
            /\ Cardinality(FeatureSet) = 12
            /\ FromOneRun(model)

\* two calls with a trainNewModel() between them returned instances of two
\* different runs
C27_Witness ==
    /\ Len(accessorLog) = 2
    /\ accessorLog[1].epoch > accessorLog[2].epoch
    /\ heap[accessorLog[1].returned].weights # heap[accessorLog[2].returned].weights
    /\ heap[accessorLog[1].returned].scaler # heap[accessorLog[2].returned].scaler
    /\ FromOneRun(heap[accessorLog[1].returned])
    /\ FromOneRun(heap[accessorLog[2].returned])

(***************************************************************************)
(* Properties of what fetchBankOffers() selects, under SpecOffers          *)
(***************************************************************************)
\* the rows of bank_offers that are active and whose ranges hold the request
Eligible ==
    { i \in DOMAIN evalIn.bank_offers :
        LET offer == evalIn.bank_offers[i]
        IN  /\ offer.is_active = TRUE
            /\ offer.loan_amount_min <= evalIn.loanAmount
            /\ evalIn.loanAmount <= offer.loan_amount_max
            /\ offer.loan_term_min <= evalIn.loanTerm
            /\ evalIn.loanTerm <= offer.loan_term_max }

\* C28: fetchBankOffers returns one result for every row that is active and
\* has loan_amount_min <= loanAmount <= loan_amount_max and loan_term_min <=
\* loanTerm <= loan_term_max, and no other; when the query reports an error or
\* no row matches it returns an empty list, and it does not throw
C28_OnlyMatchingOffersOrNone ==
    evalOut # NoRet =>
        /\ evalOut.kind = "return"
        /\ (evalIn.error \/ Eligible = {}) => evalOut.value = <<>>
        /\ ~evalIn.error =>
               /\ Len(evalOut.value) = Cardinality(Eligible)
               /\ \A k \in DOMAIN evalOut.value :
                      \E i \in Eligible :
                          evalIn.bank_offers[i].bank_name = evalOut.value[k].bank_name
               /\ \A i \in Eligible :
                      Cardinality({ k \in DOMAIN evalOut.value :
                          evalOut.value[k].bank_name = evalIn.bank_offers[i].bank_name })
                      = Cardinality({ j \in Eligible :
                          evalIn.bank_offers[j].bank_name = evalIn.bank_offers[i].bank_name })

\* of three different rows one is returned: one is not active and one has no
\* term so short
C28_Witness ==
    /\ evalOut.kind = "return" /\ ~evalIn.error
    /\ Len(evalIn.bank_offers) = MaxOffers /\ Len(evalOut.value) = 1
    /\ \E i, j \in DOMAIN evalIn.bank_offers :
           /\ ~evalIn.bank_offers[i].is_active
           /\ evalIn.bank_offers[j].is_active
           /\ evalIn.bank_offers[j].loan_term_min > evalIn.loanTerm
           /\ evalIn.bank_offers[j].loan_amount_min <= evalIn.loanAmount
           /\ evalIn.bank_offers[j].loan_amount_max >= evalIn.loanAmount

(***************************************************************************)
(* App: the component state and its handlers.  A state variable that is    *)
(* null or [] holds <<>>, one that holds the value v holds <<v>>, and      *)
(* bankOffers holds the list.  A handler runs from one await to the next   *)
(* in one step; what it awaits has settled when the next step begins.  The *)
(* position of the handler of App a is at[a].                              *)
(***************************************************************************)
\* App() at mount: the useState initial values, no handler running
NewApp ==
    [ isLoading |-> FALSE, prediction |-> <<>>, bankOffers |-> <<>>,
      loadingOffers |-> FALSE, metrics |-> <<>>,
      data |-> <<>>, submitted |-> 0 ]

(***************************************************************************)
(* SpecSubmit: one App, its form submitted again and again                 *)
(***************************************************************************)
MaxSubmissions == 2

SubmitInit ==
    /\ ClassIdle /\ ModuleIdle /\ DbIdle /\ CallIdle
    /\ evalIn = <<>> /\ evalOut = NoRet /\ locals = <<>>
    /\ app = << NewApp >>
    /\ at = << "idle" >>

\* handleSubmit(data) up to its first await; the form's button is disabled
\* while isLoading
HandleSubmit ==
    \E a \in DOMAIN app, data \in Applications :
        /\ ~app[a].isLoading
        /\ at[a] = "idle"
        /\ app[a].submitted < MaxSubmissions
        /\ app' = [ app EXCEPT ![a].isLoading = TRUE,
                               ![a].prediction = <<>>,
                               ![a].bankOffers = <<>>,
                               ![a].data = << data >>,
                               ![a].submitted = @ + 1 ]
        /\ at' = [ at EXCEPT ![a] = "submitApplication" ]
        /\ UNCHANGED <<classVars, moduleVars, dbVars, callVars, evalIn, evalOut,
                       locals>>

\* await submitApplication(data) has settled.  It threw after a failed insert
\* into applicants or into predictions, or it returned with its rows written:
\* catch and finally, or setPrediction, setLoadingOffers(true) and the call
\* of fetchBankOffers
SubmitApplicationSettled ==
    \E a \in DOMAIN app, trained \in Trainable, audited \in BOOLEAN,
       outcome \in { "no applicant", "no prediction", "returned" } :
        LET data == app[a].data[1]
            applicant == [ id |-> Len(db_applicants) + 1, data |-> data ]
            created == HeapAfterAccess(trained)
            model == created[globalModel']
            predictionResult == predict(model, data)
            prediction ==
                [ id |-> Len(db_predictions) + 1,
                  data |->
                    [ applicant_id          |-> applicant.id,
                      eligibility_status    |-> predictionResult.eligibility_status,
                      credit_score          |-> predictionResult.credit_score,
                      prediction_confidence |-> predictionResult.prediction_confidence,
                      feature_attributions  |-> predictionResult.feature_attributions,
                      explanation           |-> predictionResult.explanation,
                      model_version         |-> model.version ] ]
            audit == [ prediction_id |-> prediction.id,
                       action |-> "prediction_created",
                       metadata |->
                           [ applicant_id |-> applicant.id,
                             eligibility_status |->
                                 predictionResult.eligibility_status ] ]
            thrown == [ app EXCEPT ![a].isLoading = FALSE ]
        IN  /\ at[a] = "submitApplication"
            /\ at' = [ at EXCEPT ![a] = IF outcome = "returned"
                                        THEN "fetchBankOffers" ELSE "idle" ]
            /\ CASE outcome = "no applicant" ->
                      /\ app' = thrown
                      /\ UNCHANGED <<moduleVars, db_applicants, db_predictions,
                                     db_audit_logs>>
                 [] outcome = "no prediction" ->
                      /\ db_applicants' = Append(db_applicants, applicant)
                      /\ Access(trained)
                      /\ heap' = created
                      /\ app' = thrown
                      /\ UNCHANGED <<db_predictions, db_audit_logs>>
                 [] outcome = "returned" ->
                      /\ db_applicants' = Append(db_applicants, applicant)
                      /\ Access(trained)
                      /\ heap' = created
                      /\ app' = [ app EXCEPT ![a].prediction = << predictionResult >>,
                                             ![a].loadingOffers = TRUE ]
                      /\ db_predictions' = Append(db_predictions, prediction)
                      /\ db_audit_logs' = IF audited THEN Append(db_audit_logs, audit)
                                          ELSE db_audit_logs
            /\ UNCHANGED <<classVars, callVars, db_model_metrics, sub, evalIn,
                           evalOut, locals>>

\* await fetchBankOffers(data.loan_amount, data.loan_term) has settled.  It
\* returned the offers of the table, none when the query reported an error:
\* setBankOffers, setLoadingOffers(false) and finally; or it threw: catch and
\* finally
FetchBankOffersSettled ==
    \E a \in DOMAIN app, error \in BOOLEAN, threw \in BOOLEAN,
       bank_offers \in SeqsUpTo(BankOffers, 1) :
        LET data == app[a].data[1]
            offers == fetchBankOffers(bank_offers, data.loan_amount,
                                      data.loan_term, error)
        IN  /\ at[a] = "fetchBankOffers"
            /\ at' = [ at EXCEPT ![a] = "idle" ]
            /\ app' = IF threw
                      THEN [ app EXCEPT ![a].isLoading = FALSE ]
                      ELSE [ app EXCEPT ![a].bankOffers = offers,
                                        ![a].loadingOffers = FALSE,
                                        ![a].isLoading = FALSE ]
            /\ UNCHANGED <<classVars, moduleVars, dbVars, callVars, evalIn,
                           evalOut, locals>>

\* the move handleSubmit makes in its code when what it awaits has settled
SubmitAdvance ==
    \E a \in DOMAIN at :
        \/ /\ at[a] = "submitApplication"
           /\ \E to \in { "fetchBankOffers", "idle" } : at' = [ at EXCEPT ![a] = to ]
        \/ /\ at[a] = "fetchBankOffers"
           /\ at' = [ at EXCEPT ![a] = "idle" ]

\* every awaited call settles
SpecSubmit ==
    /\ SubmitInit
    /\ [][HandleSubmit \/ SubmitApplicationSettled \/ FetchBankOffersSettled]_vars
    /\ WF_at(SubmitAdvance)

(***************************************************************************)
(* Properties of handleSubmit, under SpecSubmit                            *)
(***************************************************************************)
\* C29: every handleSubmit invocation ends, and with isLoading = false and
\* loadingOffers = false, whether submitApplication and fetchBankOffers return
\* or throw; and from its start until its own result arrives the state holds
\* no prediction and no bank offers
C29_SubmitEndsWithNothingLoading ==
    /\ [](at[1] = "idle" =>
              ~app[1].isLoading /\ ~app[1].loadingOffers)
    /\ [](at[1] = "submitApplication" =>
              app[1].prediction = <<>> /\ app[1].bankOffers = <<>>)
    /\ [](at[1] = "fetchBankOffers" => app[1].bankOffers = <<>>)
    /\ (at[1] # "idle") ~> (at[1] = "idle")

(***************************************************************************)
(* SpecMount: Apps mounted side by side on one database and one module,    *)
(* the initializeApp of each started by its effect                         *)
(***************************************************************************)
MaxApps == 2

\* getModelMetrics() on the table model_metrics: the latest row, or null when
\* there is none or the query reported an error
getModelMetrics(model_metrics, error) ==
    IF error \/ model_metrics = <<>> THEN <<>>
    ELSE << model_metrics[Len(model_metrics)] >>

MountInit ==
    /\ ClassIdle /\ ModuleIdle /\ DbIdle /\ CallIdle
    /\ evalIn = <<>> /\ evalOut = NoRet
    /\ app = [ a \in 1..MaxApps |-> NewApp ]
    /\ at = [ a \in 1..MaxApps |-> "mounted" ]
    /\ locals = [ a \in 1..MaxApps |-> <<>> ]

\* useEffect: initializeApp() up to its first await
InitializeApp ==
    \E a \in DOMAIN app :
        /\ at[a] = "mounted"
        /\ at' = [ at EXCEPT ![a] = "getModelMetrics" ]
        /\ UNCHANGED <<app, classVars, moduleVars, dbVars, callVars, evalIn, evalOut,
                       locals>>

\* the first getModelMetrics() has settled: setMetrics of the row it found, or
\* initializeModelMetrics() up to its await, the row of the model's metrics on
\* its way to the table
GetModelMetricsSettled ==
    \E a \in DOMAIN app, error \in BOOLEAN, trained \in Trainable :
        LET existingMetrics == getModelMetrics(db_model_metrics, error)
            created == HeapAfterAccess(trained)
            model == created[globalModel']
            metrics == model.metrics
            row == [ model_version |-> model.version,
                     accuracy |-> metrics.accuracy,
                     precision |-> metrics.precision,
                     recall |-> metrics.recall,
                     f1_score |-> metrics.f1_score,
                     training_samples |-> metrics.training_samples,
                     validation_samples |-> metrics.validation_samples ]
        IN  /\ at[a] = "getModelMetrics"
            /\ IF existingMetrics # <<>>
               THEN /\ app' = [ app EXCEPT ![a].metrics = existingMetrics ]
                    /\ at' = [ at EXCEPT ![a] = "done" ]
                    /\ UNCHANGED <<moduleVars, locals>>
               ELSE /\ Access(trained)
                    /\ heap' = created
                    /\ locals' = [ locals EXCEPT ![a] = << row >> ]
                    /\ at' = [ at EXCEPT ![a] = "initializeModelMetrics" ]
                    /\ UNCHANGED app
            /\ UNCHANGED <<classVars, dbVars, callVars, evalIn, evalOut>>

\* the insert of initializeModelMetrics() has settled, the row written or an
\* error logged; the second getModelMetrics() is called
InitializeModelMetricsSettled ==
    \E a \in DOMAIN app, inserted \in BOOLEAN :
        /\ at[a] = "initializeModelMetrics"
        /\ db_model_metrics' = IF inserted THEN Append(db_model_metrics, locals[a][1])
                               ELSE db_model_metrics
        /\ at' = [ at EXCEPT ![a] = "getModelMetrics again" ]
        /\ UNCHANGED <<app, classVars, moduleVars, callVars, evalIn, evalOut, locals,
                       db_applicants, db_predictions, db_audit_logs, sub>>

\* the second getModelMetrics() has settled: setMetrics
GetModelMetricsAgainSettled ==
    \E a \in DOMAIN app, error \in BOOLEAN :
        /\ at[a] = "getModelMetrics again"
        /\ app' = [ app EXCEPT ![a].metrics = getModelMetrics(db_model_metrics, error) ]
        /\ at' = [ at EXCEPT ![a] = "done" ]
        /\ UNCHANGED <<classVars, moduleVars, dbVars, callVars, evalIn, evalOut,
                       locals>>

SpecMount ==
    /\ MountInit
    /\ [][ \/ InitializeApp
           \/ GetModelMetricsSettled
           \/ InitializeModelMetricsSettled
           \/ GetModelMetricsAgainSettled ]_vars

====
